---- MODULE Spec2Model ----
(***************************************************************************)
(* Beauty-salons search core: the relational store (PostgresRepository),   *)
(* the search-engine client (ElasticsearchClient), the domain types and    *)
(* the HTTP handlers that sit on top of them.                              *)
(*                                                                         *)
(* Conventions of the model                                                *)
(*   - a nullable value (Go pointer, SQL NULL, JSON null) is a set: {} is  *)
(*     nil/NULL and {v} is a value v;                                      *)
(*   - ratings are tenths (45 is 4.5); distances and radii are metres      *)
(*     (10000 is 10 km); weighted scores are thousandths;                  *)
(*   - coordinates are whole degrees; the salons of the table lie on one   *)
(*     meridian;                                                           *)
(*   - Go's int is a two's-complement integer of IntBits bits.             *)
(***************************************************************************)
EXTENDS Integers, Sequences, FiniteSets, TLC

VARIABLES
    db,        \* the salons table, a sequence of rows indexed by id
    index,     \* the search index: whether it exists, and its documents by id
    params,    \* the SalonSearchParams of the request being served
    sqlQuery,  \* the statement SearchSalons sent, once it has
    esQuery,   \* the request body Search sent, once it has
    pgOut,     \* what PostgresRepository.SearchSalons returned
    esOut,     \* what ElasticsearchClient.Search returned
    http,      \* the HTTP exchange: the request's query string, then the reply
    response,  \* the domain.SearchResponse built by NewSearchResponse, if any
    call,      \* a call of a method of the domain types: receiver, arguments, result
    wire,      \* the requests the searches and reads by id sent to the backends
    sync       \* the runs of SyncToElasticsearch: their position, salons and reply

vars ==
    <<db, index, params, sqlQuery, esQuery, pgOut, esOut, http, response, call, wire, sync>>

\* ------------------------------------------------------------------------
\* Bounds of the model
\* ------------------------------------------------------------------------

\* Width of Go's int in the model (64 in the build).
IntBits == 8

\* Largest page number a drawn request asks for.
MaxPage == 3

\* Largest page size a drawn request asks for, besides the default.
MaxPageSize == 2

\* The largest total match count a response is built for.
MaxTotal == 25

\* ------------------------------------------------------------------------
\* Nullable values
\* ------------------------------------------------------------------------

Nil == {}

Some(v) == {v}

Deref(o) == CHOOSE v \in o : TRUE

\* ------------------------------------------------------------------------
\* Requests to the backends
\* ------------------------------------------------------------------------

\* One request on the wire: the backend, what is asked, and whether it can
\* change what the backend stores.
Request(to, op, writes) == [to |-> to, op |-> op, writes |-> writes]

\* r.db.SelectContext / r.db.GetContext: one SELECT to PostgreSQL.
Select(what) == Request("postgresql", what, FALSE)

\* One call of the Elasticsearch client's API.
EsCall(api, writes) == Request("elasticsearch", api, writes)

\* No run of SyncToElasticsearch.
NoSync == << >>

\* ------------------------------------------------------------------------
\* Go integer arithmetic
\* ------------------------------------------------------------------------

MaxInt == 2 ^ (IntBits - 1) - 1

MinInt == -(2 ^ (IntBits - 1))

\* The value an int variable holds after an operation whose exact result is x.
WrapInt(x) == ((x - MinInt) % (2 ^ IntBits)) + MinInt

\* Go's / on ints truncates toward zero.
GoDiv(a, b) ==
    LET aa == IF a < 0 THEN -a ELSE a
        bb == IF b < 0 THEN -b ELSE b
        q  == aa \div bb
    IN  WrapInt(IF (a < 0) = (b < 0) THEN q ELSE -q)

\* Go's % on ints takes the sign of the dividend.
GoMod(a, b) == a - b * GoDiv(a, b)

\* ------------------------------------------------------------------------
\* Program constants
\* ------------------------------------------------------------------------

DefaultPage == 1

DefaultPageSize == 10

SortByRelevance == "relevance"

SortByRating == "rating"

SortByDistance == "distance"

SortByNewest == "newest"

SortByReviews == "reviews"

\* ------------------------------------------------------------------------
\* Geography: GeoPoint and the great-circle distance
\* ------------------------------------------------------------------------

\* The meridian the salons of the table lie on (Mar del Plata, 57 W).
Meridian == -57

\* Metres of great circle per degree of latitude: 6371 km * pi / 180.
MetresPerDegree == 111195

GeoPoint(lat, lon) == [Latitude |-> lat, Longitude |-> lon]

Abs(x) == IF x < 0 THEN -x ELSE x

\* sin(x/2)^2 in millionths for x = 0, 1, ..., 180 degrees; entry d + 1
\* holds the value for d degrees.
HaversineTable ==
    << 0, 76, 305, 685, 1218, 1903, 2739, 3727, 4866, 6156,
       7596, 9186, 10926, 12815, 14852, 17037, 19369, 21848, 24472, 27241,
       30154, 33210, 36408, 39748, 43227, 46846, 50603, 54497, 58526, 62690,
       66987, 71416, 75976, 80665, 85481, 90424, 95492, 100682, 105995, 111427,
       116978, 122645, 128428, 134323, 140330, 146447, 152671, 159001, 165435, 171970,
       178606, 185340, 192169, 199092, 206107, 213212, 220404, 227680, 235040, 242481,
       250000, 257595, 265264, 273005, 280814, 288691, 296632, 304634, 312697, 320816,
       328990, 337216, 345492, 353814, 362181, 370590, 379039, 387524, 396044, 404596,
       413176, 421783, 430413, 439065, 447736, 456422, 465122, 473832, 482550, 491274,
       500000, 508726, 517450, 526168, 534878, 543578, 552264, 560935, 569587, 578217,
       586824, 595404, 603956, 612476, 620961, 629410, 637819, 646186, 654508, 662784,
       671010, 679184, 687303, 695366, 703368, 711309, 719186, 726995, 734736, 742405,
       750000, 757519, 764960, 772320, 779596, 786788, 793893, 800908, 807831, 814660,
       821394, 828030, 834565, 840999, 847329, 853553, 859670, 865677, 871572, 877355,
       883022, 888573, 894005, 899318, 904508, 909576, 914519, 919335, 924024, 928584,
       933013, 937310, 941474, 945503, 949397, 953154, 956773, 960252, 963592, 966790,
       969846, 972759, 975528, 978152, 980631, 982963, 985148, 987185, 989074, 990814,
       992404, 993844, 995134, 996273, 997261, 998097, 998782, 999315, 999695, 999924,
       1000000 >>

Scale == 1000000

\* math.Sin(x/2) * math.Sin(x/2) for an angle of d degrees, in millionths.
SinHalfSquared(d) ==
    LET m == Abs(d) % 360
    IN  HaversineTable[(IF m > 180 THEN 360 - m ELSE m) + 1]

\* math.Cos of a latitude in degrees, in thousandths.
Cos(lat) == (Scale - 2 * SinHalfSquared(lat)) \div 1000

\* The haversine with the receiver's latitude taken for both points.
HaversineOwnLatitude(g, other) ==
    LET deltaLat == other.Latitude - g.Latitude
        deltaLon == other.Longitude - g.Longitude
    IN  SinHalfSquared(deltaLat)
          + (((Cos(g.Latitude) * Cos(g.Latitude)) \div 1000)
                * SinHalfSquared(deltaLon)) \div 1000

\* a := sin(dLat/2)^2 + cos(lat1) * cos(lat2) * sin(dLon/2)^2, in millionths.
Haversine(g, other) ==
    LET deltaLat == other.Latitude - g.Latitude
        deltaLon == other.Longitude - g.Longitude
    IN  SinHalfSquared(deltaLat)
          + (((Cos(g.Latitude) * Cos(other.Latitude)) \div 1000)
                * SinHalfSquared(deltaLon)) \div 1000

\* c := 2 * atan2(sqrt(a), sqrt(1 - a)), the central angle whose haversine
\* is a, in whole degrees and thousandths of a degree: exact at whole
\* degrees, interpolated along the table between them.
CentralAngle(a) ==
    IF a >= Scale THEN [degrees |-> 180, milli |-> 0]
    ELSE LET d == CHOOSE k \in 0..179 :
                      HaversineTable[k + 1] <= a /\ a < HaversineTable[k + 2]
             lo == HaversineTable[d + 1]
             hi == HaversineTable[d + 2]
         IN  [degrees |-> d, milli |-> (1000 * (a - lo)) \div (hi - lo)]

\* GeoPoint.DistanceTo, in metres: earthRadiusKm * c.
DistanceTo(g, other) ==
    LET c == CentralAngle(Haversine(g, other))
    IN  MetresPerDegree * c.degrees + (MetresPerDegree * c.milli) \div 1000

\* strings.ToLower / SQL LOWER / on the city names of the model.
Lower(s) ==
    CASE s = "Mar del Plata" -> "mar del plata"
      [] s = "Miami" -> "miami"
      [] OTHER -> s

\* ------------------------------------------------------------------------
\* The relational query compiler (PostgresRepository.SearchSalons)
\* ------------------------------------------------------------------------

\* The base query with its "WHERE s.is_active = true" left out.
BaseQueryAnyStatus ==
    [ where   |-> << >>,
      orderBy |-> << >>,
      args    |-> << >>,
      argNum  |-> 1 ]

\* The statement before any filter is added: the active-only predicate,
\* no bound argument, the next placeholder is $1.
BaseQuery ==
    [ where   |-> << [pred |-> "is_active", ph |-> << >>] >>,
      orderBy |-> << >>,
      args    |-> << >>,
      argNum  |-> 1 ]

\* A clause added with argNum advanced by one whatever it binds.
AndClauseOneStep(q, pred, vals) ==
    [ q EXCEPT
        !.where  = Append(@, [pred |-> pred,
                              ph   |-> [i \in 1..Len(vals) |-> q.argNum + i - 1]]),
        !.args   = @ \o vals,
        !.argNum = @ + 1 ]

\* query += fmt.Sprintf(" AND <pred> $%d ...", argNum, ...); args = append(args,
\* vals...); argNum += len(vals): the clause reads its values through the
\* placeholders $argNum .. $argNum+len(vals)-1.
AndClause(q, pred, vals) ==
    [ q EXCEPT
        !.where  = Append(@, [pred |-> pred,
                              ph   |-> [i \in 1..Len(vals) |-> q.argNum + i - 1]]),
        !.args   = @ \o vals,
        !.argNum = @ + Len(vals) ]

\* The verified clause left out of the statement.
AndVerifiedDropped(q) == q

\* query += " AND s.is_verified = true": a clause without a placeholder.
AndVerified(q) ==
    [ q EXCEPT !.where = Append(@, [pred |-> "is_verified", ph |-> << >>]) ]

\* The WHERE clause: one AND per filter that is set.
WhereClauses(p) ==
    LET q0 == BaseQuery
        q1 == IF p.Query # "" THEN AndClause(q0, "fts", <<p.Query>>) ELSE q0
        q2 == IF p.City # "" THEN AndClause(q1, "lower_city_eq", <<p.City>>) ELSE q1
        q3 == IF p.CategoryID # Nil
                THEN AndClause(q2, "category_eq", <<Deref(p.CategoryID)>>) ELSE q2
        q4 == IF p.PriceRange # 0
                THEN AndClause(q3, "price_eq", <<p.PriceRange>>) ELSE q3
        q5 == IF p.MinRating # Nil
                THEN AndClause(q4, "rating_gte", <<Deref(p.MinRating)>>) ELSE q4
        q6 == IF p.IsVerified # Nil /\ Deref(p.IsVerified) THEN AndVerified(q5) ELSE q5
    IN  q6

\* The geo-radius predicate never added to the statement.
GeoClauseSkipped(q, p) == q

\* The geo-radius predicate: 6371*acos(...) <= $n+3, reading the centre's
\* latitude, longitude, latitude again and the radius.
GeoClause(q, p) ==
    IF p.Location # Nil /\ p.RadiusKm # Nil
    THEN AndClause(q, "geo_within",
                   << Deref(p.Location).Latitude, Deref(p.Location).Longitude,
                      Deref(p.Location).Latitude, Deref(p.RadiusKm) >>)
    ELSE q

\* An ORDER BY key whose direction is left to the store's default.
SortKeyAscending(expr, dir, nulls) ==
    [expr |-> expr, dir |-> "ASC", nulls |-> nulls, ph |-> << >>]

SortKey(expr, dir, nulls) == [expr |-> expr, dir |-> dir, nulls |-> nulls, ph |-> << >>]

\* The ORDER BY clause chosen by params.SortBy.
OrderBy(q, p) ==
    CASE p.SortBy = SortByRating ->
           [q EXCEPT !.orderBy = << SortKey("rating", "DESC", "LAST"),
                                    SortKey("review_count", "DESC", "default") >>]
      [] p.SortBy = SortByReviews ->
           [q EXCEPT !.orderBy = << SortKey("review_count", "DESC", "default"),
                                    SortKey("rating", "DESC", "LAST") >>]
      [] p.SortBy = SortByNewest ->
           [q EXCEPT !.orderBy = << SortKey("created_at", "DESC", "default") >>]
      [] p.SortBy = SortByDistance ->
           IF p.Location # Nil
           THEN [q EXCEPT
                   !.orderBy = << [expr |-> "distance", dir |-> "ASC",
                                   nulls |-> "default",
                                   ph |-> <<q.argNum, q.argNum + 1, q.argNum + 2>>] >>,
                   !.args    = @ \o << Deref(p.Location).Latitude,
                                       Deref(p.Location).Longitude,
                                       Deref(p.Location).Latitude >>,
                   !.argNum  = @ + 3]
           ELSE [q EXCEPT !.orderBy = << SortKey("rating", "DESC", "LAST") >>]
      [] OTHER ->
           [q EXCEPT !.orderBy = << SortKey("weighted", "DESC", "default") >>]

\* if params.PageSize <= 0 { params.PageSize = 10 }
EffectivePageSize(p) == IF p.PageSize <= 0 THEN DefaultPageSize ELSE p.PageSize

\* if params.Page <= 0 { params.Page = 1 }
EffectivePage(p) == IF p.Page <= 0 THEN DefaultPage ELSE p.Page

\* The offset computed from the page number itself rather than from the
\* pages before it.
OffsetFromPage(page, pageSize) == WrapInt(page * pageSize)

\* offset := (params.Page - 1) * params.PageSize, in int arithmetic.
Offset(page, pageSize) == WrapInt(WrapInt(page - 1) * pageSize)

\* LIMIT $n OFFSET $n+1 with args pageSize, offset.
Paginate(q, p) ==
    [ where   |-> q.where,
      orderBy |-> q.orderBy,
      limit   |-> q.argNum,
      offset  |-> q.argNum + 1,
      args    |-> q.args \o << EffectivePageSize(p),
                               Offset(EffectivePage(p), EffectivePageSize(p)) >> ]

\* The whole statement SearchSalons sends, with its bound arguments.
SearchSalonsQuery(p) == Paginate(OrderBy(GeoClause(WhereClauses(p), p), p), p)

\* ------------------------------------------------------------------------
\* The search-engine query compiler (ElasticsearchClient.buildQuery)
\* ------------------------------------------------------------------------

Term(field, value) == [kind |-> "term", field |-> field, value |-> value]

\* fmt.Sprintf("%fkm", r): the radius (held here in metres) printed as
\* kilometres with six decimals.
FormatKm(r) == [whole |-> r \div 1000, micro |-> (r % 1000) * 1000, unit |-> "km"]

\* The must clauses: the fuzzy multi-field match, or match_all.
MustClauses(p) ==
    IF p.Query # ""
    THEN << [kind |-> "multi_match", query |-> p.Query,
             fields |-> <<"name^3", "description", "services.name">>,
             fuzziness |-> "AUTO"] >>
    ELSE << [kind |-> "match_all"] >>

\* The non-scoring filter clauses, in the order buildQuery appends them.
FilterClauses(p) ==
    LET f0 == << Term("is_active", TRUE) >>
        f1 == IF p.City # "" THEN Append(f0, Term("city", p.City)) ELSE f0
        f2 == IF p.CategoryID # Nil
                THEN Append(f1, Term("category_id", Deref(p.CategoryID))) ELSE f1
        f3 == IF p.PriceRange # 0
                THEN Append(f2, Term("price_range", p.PriceRange)) ELSE f2
        f4 == IF p.MinRating # Nil
                THEN Append(f3, [kind |-> "range", field |-> "rating",
                                 gte |-> Deref(p.MinRating)])
                ELSE f3
        f5 == IF p.IsVerified # Nil /\ Deref(p.IsVerified)
                THEN Append(f4, Term("is_verified", TRUE)) ELSE f4
        f6 == IF p.Location # Nil /\ p.RadiusKm # Nil
                THEN Append(f5, [kind |-> "geo_distance", field |-> "location",
                                 distance |-> FormatKm(Deref(p.RadiusKm)),
                                 lat |-> Deref(p.Location).Latitude,
                                 lon |-> Deref(p.Location).Longitude])
                ELSE f5
    IN  f6

EsSort(field, order, missing) == [field |-> field, order |-> order, missing |-> missing]

\* The sort array chosen by params.SortBy.
SortClauses(p) ==
    CASE p.SortBy = SortByRating -> << EsSort("rating", "desc", "_last") >>
      [] p.SortBy = SortByReviews -> << EsSort("review_count", "desc", "default") >>
      [] p.SortBy = SortByNewest -> << EsSort("created_at", "desc", "default") >>
      [] p.SortBy = SortByDistance ->
           IF p.Location # Nil
           THEN << [field |-> "_geo_distance", order |-> "asc", missing |-> "default",
                    lat |-> Deref(p.Location).Latitude,
                    lon |-> Deref(p.Location).Longitude] >>
           ELSE << >>
      [] OTHER -> << EsSort("_score", "desc", "default"),
                     EsSort("rating", "desc", "_last") >>

\* The request body Search sends.
buildQuery(p) ==
    LET pageSize == IF p.PageSize <= 0 THEN DefaultPageSize ELSE p.PageSize
        page     == IF p.Page <= 0 THEN DefaultPage ELSE p.Page
        from     == WrapInt(WrapInt(page - 1) * pageSize)
    IN  [ must   |-> MustClauses(p),
          filter |-> FilterClauses(p),
          sort   |-> SortClauses(p),
          from   |-> from,
          size   |-> pageSize ]

\* ------------------------------------------------------------------------
\* Search parameters drawn by the specifications
\* ------------------------------------------------------------------------

\* The query point of a geo search and the radius asked for (15 km).
Centre == GeoPoint(-38, Meridian)

RadiusInputs == {Nil, Some(15000)}

SortInputs ==
    {"", SortByRelevance, SortByRating, SortByDistance, SortByNewest, SortByReviews}

PageInputs == -1..MaxPage

PageSizeInputs == -1..MaxPageSize

SalonSearchParams(q, city, cat, price, rating, verified, loc, radius, page, size, sort) ==
    [ Query |-> q, City |-> city, CategoryID |-> cat, PriceRange |-> price,
      MinRating |-> rating, IsVerified |-> verified, Location |-> loc,
      RadiusKm |-> radius, Page |-> page, PageSize |-> size, SortBy |-> sort ]

\* Every combination of filters, geo parameters, sort policy and page.
AllParams ==
    { SalonSearchParams(q, city, cat, price, rating, verified, loc, radius, page, size, sort) :
        q \in {"", "spa"}, city \in {"", "Mar del Plata"}, cat \in {Nil, Some(1)},
        price \in {0, 1}, rating \in {Nil, Some(45)},
        verified \in {Nil, Some(FALSE), Some(TRUE)},
        loc \in {Nil, Some(Centre)}, radius \in RadiusInputs,
        page \in PageInputs, size \in PageSizeInputs, sort \in SortInputs }

\* ------------------------------------------------------------------------
\* The salons table and its rows (migrations/001_initial_schema.sql, salonRow)
\* ------------------------------------------------------------------------

\* A row of salons joined with categories, as the three SELECTs read it.
Row(id, name, city, cat, price, rating, reviews, active, verified, lat, lon, created) ==
    [ id |-> id, name |-> name, slug |-> "salon", description |-> Nil,
      address |-> Nil, city |-> city, state |-> Nil, postal_code |-> Nil,
      country |-> Some("Argentina"), latitude |-> lat, longitude |-> lon,
      phone |-> Nil, email |-> Nil, website |-> Nil,
      category_id |-> cat, price_range |-> price, rating |-> rating,
      review_count |-> reviews, is_active |-> active, is_verified |-> verified,
      created_at |-> created, updated_at |-> created,
      category_name |-> IF cat = Nil THEN Nil
                        ELSE Some(IF Deref(cat) = 1 THEN "Hair Salon" ELSE "Barbershop") ]

\* The lexemes to_tsvector('spanish', ...) and the spanish_analyzer keep of
\* the texts of the model.
Lexemes(text) ==
    CASE text = "Spa Relax" -> {"spa", "relax"}
      [] text = "Peluqueria Mar" -> {"peluqueri", "mar"}
      [] text = "Barberia Sur" -> {"barberi", "sur"}
      [] text = "spa" -> {"spa"}
      [] text = "peluqeria" -> {"peluqeri"}
      [] OTHER -> {}

OptText(o) == IF o = Nil THEN {} ELSE Lexemes(Deref(o))

\* to_tsvector(name || ' ' || description) @@ plainto_tsquery($n): every
\* lexeme of the query is a lexeme of the row; no typo tolerance.
FullTextMatch(row, text) ==
    /\ Lexemes(text) # {}
    /\ Lexemes(text) \subseteq (Lexemes(row.name) \cup OptText(row.description))

\* 6371 * acos(...) of the row against the bound centre: NULL when the row
\* has no latitude or no longitude.
SqlDistance(row, lat, lon) ==
    IF row.latitude = Nil \/ row.longitude = Nil
    THEN Nil
    ELSE Some(DistanceTo(GeoPoint(lat, lon),
                         GeoPoint(Deref(row.latitude), Deref(row.longitude))))

\* Whether one predicate of the WHERE clause is true of a row (a comparison
\* with NULL is not true).
ClauseHolds(c, args, row) ==
    CASE c.pred = "is_active" -> row.is_active
      [] c.pred = "fts" -> FullTextMatch(row, args[c.ph[1]])
      [] c.pred = "lower_city_eq" ->
           row.city # Nil /\ Lower(Deref(row.city)) = Lower(args[c.ph[1]])
      [] c.pred = "category_eq" ->
           row.category_id # Nil /\ Deref(row.category_id) = args[c.ph[1]]
      [] c.pred = "price_eq" ->
           row.price_range # Nil /\ Deref(row.price_range) = args[c.ph[1]]
      [] c.pred = "rating_gte" ->
           row.rating # Nil /\ Deref(row.rating) >= args[c.ph[1]]
      [] c.pred = "is_verified" -> row.is_verified
      [] c.pred = "geo_within" ->
           LET d == SqlDistance(row, args[c.ph[1]], args[c.ph[2]])
           IN  d # Nil /\ Deref(d) <= args[c.ph[4]]
      [] OTHER -> FALSE

\* The rows the WHERE clause keeps.
Matching(q, table) ==
    { id \in DOMAIN table :
        \A i \in 1..Len(q.where) : ClauseHolds(q.where[i], q.args, table[id]) }

\* LN(1 + n) in thousandths, for the review counts of the model.
LnMilli(n) ==
    CASE n = 1 -> 0 [] n = 2 -> 693 [] n = 3 -> 1099 [] n = 4 -> 1386
      [] n = 5 -> 1609 [] n = 6 -> 1792 [] OTHER -> 1946

Coalesce(o, d) == IF o = Nil THEN d ELSE Deref(o)

\* COALESCE(rating,0)*2.0 + LN(1+COALESCE(review_count,0))*1.5
\* + CASE WHEN is_verified THEN 5.0 ELSE 0.0 END, in thousandths.
WeightedScore(row) ==
    Coalesce(row.rating, 0) * 200
    + (LnMilli(1 + Coalesce(row.review_count, 0)) * 15) \div 10
    + (IF row.is_verified THEN 5000 ELSE 0)

\* A value that sorts after (or, negated, before) every value of the model.
Infinity == 10 ^ 9

\* The position of a row under one ORDER BY key, smaller first: DESC negates
\* the value; NULLS LAST, and the default NULLS FIRST of DESC and NULLS LAST
\* of ASC, place the rows without a value.
SortRank(k, args, row) ==
    LET v == CASE k.expr = "rating" -> row.rating
               [] k.expr = "review_count" -> row.review_count
               [] k.expr = "created_at" -> Some(row.created_at)
               [] k.expr = "distance" -> SqlDistance(row, args[k.ph[1]], args[k.ph[2]])
               [] OTHER -> Some(WeightedScore(row))
    IN  IF v = Nil
        THEN IF k.nulls = "LAST" \/ k.dir = "ASC" THEN Infinity ELSE -Infinity
        ELSE IF k.dir = "DESC" THEN -Deref(v) ELSE Deref(v)

\* Whether row a may come before row b under the ORDER BY keys from the
\* i-th on (rows equal on every key come in any order).
RECURSIVE MayPrecede(_, _, _, _, _)
MayPrecede(keys, i, args, a, b) ==
    IF i > Len(keys) THEN TRUE
    ELSE LET ra == SortRank(keys[i], args, a)
             rb == SortRank(keys[i], args, b)
         IN  IF ra # rb THEN ra < rb ELSE MayPrecede(keys, i + 1, args, a, b)

\* Every order in which the matching rows may be returned.
Orderings(q, table) ==
    LET ids == Matching(q, table)
        n   == Cardinality(ids)
    IN  { s \in [1..n -> ids] :
            /\ \A i, j \in 1..n : i # j => s[i] # s[j]
            /\ \A i, j \in 1..n :
                  i < j => MayPrecede(q.orderBy, 1, q.args, table[s[i]], table[s[j]]) }

Min(a, b) == IF a < b THEN a ELSE b

\* LIMIT and OFFSET applied to an ordering; each kept row carries
\* COUNT(*) OVER(), the number of matching rows.
Window(q, ordering) ==
    LET n     == Len(ordering)
        first == q.args[q.offset] + 1
        last  == Min(n, q.args[q.offset] + q.args[q.limit])
    IN  [ i \in 1..(IF last >= first THEN last - first + 1 ELSE 0) |->
            [id |-> ordering[first + i - 1], total_count |-> n] ]

\* ------------------------------------------------------------------------
\* Rows to domain salons (salonRow.toDomain)
\* ------------------------------------------------------------------------

\* A string column copied only when it is not NULL; the Go zero value otherwise.
StringOr(o) == IF o = Nil THEN "" ELSE Deref(o)

toDomain(r) ==
    [ ID          |-> r.id,
      Name        |-> r.name,
      Slug        |-> r.slug,
      Description |-> r.description,
      Location    |-> [ Address    |-> StringOr(r.address),
                        City       |-> StringOr(r.city),
                        State      |-> StringOr(r.state),
                        PostalCode |-> StringOr(r.postal_code),
                        Country    |-> StringOr(r.country),
                        GeoPoint   |-> IF r.latitude # Nil /\ r.longitude # Nil
                                       THEN Some(GeoPoint(Deref(r.latitude),
                                                          Deref(r.longitude)))
                                       ELSE Nil ],
      Contact     |-> [ Phone   |-> StringOr(r.phone),
                        Email   |-> StringOr(r.email),
                        Website |-> StringOr(r.website) ],
      CategoryID  |-> r.category_id,
      PriceRange  |-> IF r.price_range # Nil THEN Deref(r.price_range) ELSE 0,
      Rating      |-> r.rating,
      ReviewCount |-> IF r.review_count # Nil THEN Deref(r.review_count) ELSE 0,
      IsActive    |-> r.is_active,
      IsVerified  |-> r.is_verified,
      CreatedAt   |-> 0,
      UpdatedAt   |-> 0,
      Category    |-> IF r.category_name # Nil
                      THEN Some([ID |-> Deref(r.category_id),
                                 Name |-> Deref(r.category_name)])
                      ELSE Nil,
      Services    |-> << >>,
      Amenities   |-> << >>,
      OperatingHours |-> << >> ]

\* salons[i] = row.toDomain(); totalCount = row.TotalCount: the total is
\* the count carried by the last row read, and stays 0 when no row is read.
RowsToResult(rows, table) ==
    [ status |-> "ok",
      salons |-> [i \in 1..Len(rows) |-> toDomain(table[rows[i].id])],
      total  |-> IF Len(rows) = 0 THEN 0 ELSE rows[Len(rows)].total_count ]

Failed == [status |-> "error", salons |-> << >>, total |-> 0]

\* No HTTP exchange: the backends are called directly.
NoHttp == [stage |-> "none"]

\* No method of the domain types is being called.
NoCall == [method |-> "none"]

Idle == [status |-> "idle", salons |-> << >>, total |-> 0]

\* PostgreSQL rejects a negative LIMIT or OFFSET.
StatementValid(q) == q.args[q.limit] >= 0 /\ q.args[q.offset] >= 0

\* PostgresRepository.SearchSalons(params): compile the statement, run it,
\* convert the rows; or the connection or the statement fails.
RunSearchSalons(p) ==
    LET q == SearchSalonsQuery(p)
    IN  /\ sqlQuery' = Some(q)
        /\ wire' = Append(wire, Select("salons search"))
        /\ \/ /\ StatementValid(q)
              /\ \E ordering \in Orderings(q, db) :
                    pgOut' = RowsToResult(Window(q, ordering), db)
           \/ pgOut' = Failed

\* The repository searched with the parameters at hand.
SearchSalons ==
    /\ pgOut = Idle
    /\ http = NoHttp
    /\ RunSearchSalons(params)
    /\ UNCHANGED <<db, index, params, esQuery, esOut, http, response, call, sync>>

\* ------------------------------------------------------------------------
\* Documents of the search index (salonToDocument, documentToSalon)
\* ------------------------------------------------------------------------

\* The keys salonToDocument adds only when the salon has the value.
OptionalKey(present, rec) == IF present THEN rec ELSE << >>

\* salonToDocument: the map that is marshalled and indexed; a nil pointer
\* is written as a JSON null (Nil) under its key.
salonToDocument(salon) ==
    [ id           |-> salon.ID,
      name         |-> salon.Name,
      slug         |-> salon.Slug,
      description  |-> salon.Description,
      address      |-> salon.Location.Address,
      city         |-> salon.Location.City,
      state        |-> salon.Location.State,
      country      |-> salon.Location.Country,
      phone        |-> salon.Contact.Phone,
      email        |-> salon.Contact.Email,
      website      |-> salon.Contact.Website,
      category_id  |-> salon.CategoryID,
      price_range  |-> salon.PriceRange,
      rating       |-> salon.Rating,
      review_count |-> salon.ReviewCount,
      is_active    |-> salon.IsActive,
      is_verified  |-> salon.IsVerified ]
    @@ OptionalKey(salon.Location.GeoPoint # Nil,
                   [location |-> [lat |-> Deref(salon.Location.GeoPoint).Latitude,
                                  lon |-> Deref(salon.Location.GeoPoint).Longitude]])
    @@ OptionalKey(salon.Category # Nil,
                   [category_name |-> Deref(salon.Category).Name])
    @@ OptionalKey(Len(salon.Services) > 0,
                   [services |-> [i \in 1..Len(salon.Services) |->
                                    [name      |-> salon.Services[i].Name,
                                     price_min |-> salon.Services[i].PriceMin,
                                     price_max |-> salon.Services[i].PriceMax]]])
    @@ OptionalKey(Len(salon.Amenities) > 0,
                   [amenities |-> [i \in 1..Len(salon.Amenities) |->
                                     salon.Amenities[i].Name]])

Has(doc, key) == key \in DOMAIN doc

\* doc[key].(string): the string under the key, "" when the key is missing.
DocString(doc, key) == IF Has(doc, key) THEN doc[key] ELSE ""

\* documentToSalon: the salon read back from a hit's _source.
documentToSalon(doc) ==
    [ ID          |-> IF Has(doc, "id") THEN doc.id ELSE 0,
      Name        |-> DocString(doc, "name"),
      Slug        |-> DocString(doc, "slug"),
      Description |-> IF Has(doc, "description") THEN doc.description ELSE Nil,
      Location    |-> [ Address    |-> DocString(doc, "address"),
                        City       |-> DocString(doc, "city"),
                        State      |-> DocString(doc, "state"),
                        PostalCode |-> "",
                        Country    |-> DocString(doc, "country"),
                        GeoPoint   |-> IF Has(doc, "location")
                                       THEN Some(GeoPoint(doc.location.lat,
                                                          doc.location.lon))
                                       ELSE Nil ],
      Contact     |-> [ Phone   |-> DocString(doc, "phone"),
                        Email   |-> DocString(doc, "email"),
                        Website |-> DocString(doc, "website") ],
      CategoryID  |-> IF Has(doc, "category_id") THEN doc.category_id ELSE Nil,
      PriceRange  |-> IF Has(doc, "price_range") THEN doc.price_range ELSE 0,
      Rating      |-> IF Has(doc, "rating") THEN doc.rating ELSE Nil,
      ReviewCount |-> IF Has(doc, "review_count") THEN doc.review_count ELSE 0,
      IsActive    |-> Has(doc, "is_active") /\ doc.is_active,
      IsVerified  |-> Has(doc, "is_verified") /\ doc.is_verified,
      CreatedAt   |-> 0,
      UpdatedAt   |-> 0,
      Category    |-> IF Has(doc, "category_name")
                      THEN Some([ID |-> 0, Name |-> doc.category_name])
                      ELSE Nil,
      Services    |-> << >>,
      Amenities   |-> IF Has(doc, "amenities")
                      THEN [i \in 1..Len(doc.amenities) |->
                              [ID |-> 0, Name |-> doc.amenities[i], Icon |-> ""]]
                      ELSE << >>,
      OperatingHours |-> << >> ]

\* ------------------------------------------------------------------------
\* The search engine: the index and how it answers a query
\* ------------------------------------------------------------------------

\* The fields CreateIndex maps explicitly.
MappedFields ==
    { "name", "description", "slug", "city", "state", "country", "category_name",
      "price_range", "rating", "review_count", "is_active", "is_verified",
      "location", "services", "amenities" }

\* The fields a sort may name: the mapped ones, those the engine maps on
\* its own when a document carries a value under them, and its own
\* _score and _geo_distance.
Sortable(idx, field) ==
    \/ field \in MappedFields \cup {"_score", "_geo_distance"}
    \/ \E id \in DOMAIN idx.docs : Has(idx.docs[id], field)

\* fuzziness AUTO: a token one edit away from the query's also matches.
FuzzyEqual(a, b) == a = b \/ {a, b} = {"peluqeri", "peluqueri"}

\* The analysed tokens of the fields multi_match reads.
DocTokens(doc) ==
    Lexemes(doc.name) \cup OptText(doc.description)
    \cup (IF Has(doc, "services")
          THEN UNION { Lexemes(doc.services[i].name) : i \in 1..Len(doc.services) }
          ELSE {})

\* Whether a must clause matches a document.
MustHolds(c, doc) ==
    \/ c.kind = "match_all"
    \/ /\ c.kind = "multi_match"
       /\ \E t \in Lexemes(c.query) : \E u \in DocTokens(doc) : FuzzyEqual(t, u)

\* The engine reads a distance "<whole>.<micro>km" back into metres.
ParseDistance(d) == d.whole * 1000 + d.micro \div 1000

\* Whether a filter clause accepts a document: a key that is missing or
\* null matches no term, range or geo_distance.
FilterHolds(c, doc) ==
    CASE c.kind = "term" /\ c.field = "category_id" ->
           Has(doc, "category_id") /\ doc.category_id = Some(c.value)
      [] c.kind = "term" /\ c.field # "category_id" ->
           Has(doc, c.field) /\ doc[c.field] = c.value
      [] c.kind = "range" ->
           Has(doc, c.field) /\ doc[c.field] # Nil /\ Deref(doc[c.field]) >= c.gte
      [] c.kind = "geo_distance" ->
           /\ Has(doc, c.field)
           /\ DistanceTo(GeoPoint(c.lat, c.lon),
                         GeoPoint(doc[c.field].lat, doc[c.field].lon))
                <= ParseDistance(c.distance)
      [] OTHER -> FALSE

\* The documents the bool query selects.
Hits(q, idx) ==
    { id \in DOMAIN idx.docs :
        /\ \A i \in 1..Len(q.must) : MustHolds(q.must[i], idx.docs[id])
        /\ \A i \in 1..Len(q.filter) : FilterHolds(q.filter[i], idx.docs[id]) }

\* The engine's relevance score, in thousandths: 1.0 under match_all, and
\* under multi_match higher for an exact token than for a fuzzy one.
Score(q, doc) ==
    IF q.must[1].kind = "match_all" THEN 1000
    ELSE IF Lexemes(q.must[1].query) \cap DocTokens(doc) # {} THEN 3000 ELSE 2000

\* The position of a document under one sort entry, smaller first.
EsRank(k, q, doc) ==
    CASE k.field = "_score" -> -Score(q, doc)
      [] k.field = "_geo_distance" ->
           IF Has(doc, "location")
           THEN DistanceTo(GeoPoint(k.lat, k.lon),
                           GeoPoint(doc.location.lat, doc.location.lon))
           ELSE Infinity
      [] k.field = "rating" -> IF doc.rating = Nil THEN Infinity ELSE -Deref(doc.rating)
      [] k.field = "review_count" -> -doc.review_count
      [] OTHER -> 0

RECURSIVE EsMayPrecede(_, _, _, _, _)
EsMayPrecede(keys, i, q, a, b) ==
    IF i > Len(keys) THEN TRUE
    ELSE LET ra == EsRank(keys[i], q, a)
             rb == EsRank(keys[i], q, b)
         IN  IF ra # rb THEN ra < rb ELSE EsMayPrecede(keys, i + 1, q, a, b)

\* An empty sort array means the engine's default, _score descending.
EffectiveSort(q) ==
    IF Len(q.sort) = 0 THEN << EsSort("_score", "desc", "default") >> ELSE q.sort

\* Every order in which the engine may return the hits.
HitOrderings(q, idx) ==
    LET ids == Hits(q, idx)
        n   == Cardinality(ids)
    IN  { s \in [1..n -> ids] :
            /\ \A i, j \in 1..n : i # j => s[i] # s[j]
            /\ \A i, j \in 1..n :
                  i < j => EsMayPrecede(EffectiveSort(q), 1, q,
                                        idx.docs[s[i]], idx.docs[s[j]]) }

\* from and size applied to an ordering of the hits.
Page(q, ordering) ==
    LET n     == Len(ordering)
        first == q.from + 1
        last  == Min(n, q.from + q.size)
    IN  [ i \in 1..(IF last >= first THEN last - first + 1 ELSE 0) |->
            ordering[first + i - 1] ]

\* The engine rejects a search of a missing index, a negative from or
\* size, and a sort on a field that has no mapping.
RequestValid(q, idx) ==
    /\ idx.exists
    /\ q.from >= 0 /\ q.size >= 0
    /\ \A i \in 1..Len(q.sort) : Sortable(idx, q.sort[i].field)

\* hits.total.value and documentToSalon of each hit's _source.
HitsToResult(hits, n, idx) ==
    [ status |-> "ok",
      salons |-> [i \in 1..Len(hits) |-> documentToSalon(idx.docs[hits[i]])],
      total  |-> n ]

\* A search that sends its request a second time when the first fails.
RunSearchRetrying(p) ==
    LET q == buildQuery(p)
    IN  /\ esQuery' = Some(q)
        /\ \/ /\ wire' = Append(wire, EsCall("Search", FALSE))
              /\ RequestValid(q, index)
              /\ \E ordering \in HitOrderings(q, index) :
                    esOut' = HitsToResult(Page(q, ordering), Len(ordering), index)
           \/ /\ wire' = wire \o << EsCall("Search", FALSE), EsCall("Search", FALSE) >>
              /\ esOut' = Failed

\* ElasticsearchClient.Search(params): build the query, send it, parse the
\* hits; or the transport fails or the engine answers with an error.
RunSearch(p) ==
    LET q == buildQuery(p)
    IN  /\ esQuery' = Some(q)
        /\ wire' = Append(wire, EsCall("Search", FALSE))
        /\ \/ /\ RequestValid(q, index)
              /\ \E ordering \in HitOrderings(q, index) :
                    esOut' = HitsToResult(Page(q, ordering), Len(ordering), index)
           \/ esOut' = Failed

\* The search-engine client searched with the parameters at hand.
Search ==
    /\ esOut = Idle
    /\ http = NoHttp
    /\ RunSearch(params)
    /\ UNCHANGED <<db, index, params, sqlQuery, pgOut, http, response, call, sync>>

\* IndexSalon: the document of one salon written under its id.
IndexSalon(idx, salon) ==
    [ idx EXCEPT !.docs = (salon.ID :> salonToDocument(salon)) @@ @ ]

\* The index right after CreateIndex.
EmptyIndex == [exists |-> TRUE, docs |-> << >>]

\* ------------------------------------------------------------------------
\* The HTTP handlers (handlers.go) and the domain's response constructor
\* ------------------------------------------------------------------------

\* The value of one query-string parameter: absent (c.Query gives ""), a
\* decimal numeral of any size, or some other text.
Absent == [kind |-> "absent", n |-> 0]

Text == [kind |-> "text", n |-> 0]

Numeral(n) == [kind |-> "number", n |-> n]

\* strconv.Atoi and strconv.ParseInt(s, 10, 64): an error for text and for
\* a numeral outside the range of int.
Atoi(v) == IF v.kind = "number" /\ v.n >= MinInt /\ v.n <= MaxInt THEN Some(v.n) ELSE Nil

\* strconv.ParseFloat(s, 64): an error for text.
ParseFloat(v) == IF v.kind = "number" THEN Some(v.n) ELSE Nil

\* if params.Page <= 0 { params.Page = 1 }
PageOrDefault(page) == IF page <= 0 THEN DefaultPage ELSE page

\* A page size replaced by the default only when it is exactly zero.
PageSizeOrDefaultWhenZero(size) == IF size = 0 THEN DefaultPageSize ELSE size

\* if params.PageSize <= 0 { params.PageSize = 10 }
PageSizeOrDefault(size) == IF size <= 0 THEN DefaultPageSize ELSE size

\* Handler.parseSearchParams: each parameter is kept only when it is
\* present and parses; lat and lon are parsed but Location is never
\* assigned, and no parameter is read into SortBy.
parseSearchParams(url) ==
    [ Query      |-> url.q,
      City       |-> url.city,
      CategoryID |-> Atoi(url.category),
      PriceRange |-> Coalesce(Atoi(url.price_range), 0),
      MinRating  |-> ParseFloat(url.min_rating),
      IsVerified |-> IF url.verified = "true" THEN Some(TRUE) ELSE Nil,
      Location   |-> Nil,
      RadiusKm   |-> ParseFloat(url.radius),
      Page       |-> PageOrDefault(Coalesce(Atoi(url.page), 0)),
      PageSize   |-> PageSizeOrDefault(Coalesce(Atoi(url.page_size), 0)),
      SortBy     |-> "" ]

\* c.JSON(http.StatusInternalServerError, gin.H{"error": ...})
SearchFailed == [status |-> 500, body |-> [error |-> "Search failed"]]

\* The exchange once the handler has replied.
Replied(req, reply) ==
    [stage |-> "response", path |-> req.path, url |-> req.url, reply |-> reply]

\* Handler.sendSearchResponse: totalPages := (total + PageSize - 1) / PageSize
\* in int arithmetic, and the handlers' SearchResponse as the body.
sendSearchResponse(salons, total, p, source) ==
    [ status |-> 200,
      body |-> [ data        |-> salons,
                 total       |-> total,
                 page        |-> p.Page,
                 page_size   |-> p.PageSize,
                 total_pages |-> GoDiv(WrapInt(WrapInt(total + p.PageSize) - 1),
                                       p.PageSize),
                 source      |-> source ] ]

\* Handler.SearchSalons, GET /api/v1/search: parse, search the engine, reply.
HandlerSearchSalons ==
    /\ http.stage = "request"
    /\ http.path = "/api/v1/search"
    /\ params' = parseSearchParams(http.url)
    /\ RunSearch(params')
    /\ http' = Replied(http, IF esOut'.status = "ok"
                             THEN sendSearchResponse(esOut'.salons, esOut'.total,
                                                     params', "elasticsearch")
                             ELSE SearchFailed)
    /\ UNCHANGED <<db, index, sqlQuery, pgOut, response, call, sync>>

\* Handler.SearchSalonsPostgres, GET /api/v1/search/postgres: parse, search
\* the relational store, reply.
HandlerSearchSalonsPostgres ==
    /\ http.stage = "request"
    /\ http.path = "/api/v1/search/postgres"
    /\ params' = parseSearchParams(http.url)
    /\ RunSearchSalons(params')
    /\ http' = Replied(http, IF pgOut'.status = "ok"
                             THEN sendSearchResponse(pgOut'.salons, pgOut'.total,
                                                     params', "postgresql")
                             ELSE SearchFailed)
    /\ UNCHANGED <<db, index, esQuery, esOut, response, call, sync>>

\* domain.NewSearchResponse: total/PageSize, one more when there is a
\* remainder; Source is left empty.
NewSearchResponse(results, total, p) ==
    [ Results    |-> results,
      Total      |-> total,
      Page       |-> p.Page,
      PageSize   |-> p.PageSize,
      TotalPages |-> GoDiv(total, p.PageSize)
                     + (IF GoMod(total, p.PageSize) > 0 THEN 1 ELSE 0),
      Query      |-> p.Query,
      Source     |-> "" ]

\* ------------------------------------------------------------------------
\* Methods of the domain types (salon.go)
\* ------------------------------------------------------------------------

\* A string whose length matters is a sequence of runs of one character:
\* << Run("a", 3), Run(" ", 1) >> is "aaa ".  The characters are "a", the
\* space " " and "e'" (e with an acute accent, two bytes in UTF-8).
Run(ch, n) == [ch |-> ch, n |-> n]

Utf8Bytes(ch) == IF ch = "e'" THEN 2 ELSE 1

\* len(s): the number of bytes of a Go string.
RECURSIVE ByteLen(_)
ByteLen(s) == IF s = << >> THEN 0 ELSE Head(s).n * Utf8Bytes(Head(s).ch) + ByteLen(Tail(s))

IsSpace(ch) == ch = " "

RECURSIVE TrimLeft(_)
TrimLeft(s) ==
    IF s = << >> THEN s
    ELSE IF IsSpace(Head(s).ch) \/ Head(s).n = 0 THEN TrimLeft(Tail(s)) ELSE s

RECURSIVE TrimRight(_)
TrimRight(s) ==
    IF s = << >> THEN s
    ELSE IF IsSpace(s[Len(s)].ch) \/ s[Len(s)].n = 0
         THEN TrimRight(SubSeq(s, 1, Len(s) - 1)) ELSE s

\* strings.TrimSpace
TrimSpace(s) == TrimRight(TrimLeft(s))

\* GeoPoint.IsValid
GeoPointIsValid(g) ==
    g.Latitude >= -90 /\ g.Latitude <= 90 /\ g.Longitude >= -180 /\ g.Longitude <= 180

\* PriceRange.IsValid: p >= PriceBudget && p <= PriceLuxury
PriceRangeIsValid(p) == p >= 1 /\ p <= 4

\* A message appended only while no other has been: the first violation wins.
AppendIfFirst(errs, cond, msg) == IF cond /\ errs = << >> THEN Append(errs, msg) ELSE errs

\* errs = append(errs, msg) when the condition holds.
AppendIf(errs, cond, msg) == IF cond THEN Append(errs, msg) ELSE errs

\* Salon.Validate: the messages of errs in the order they are appended
\* (the error joins them with "; "); << >> is the nil error.
SalonValidate(s) ==
    LET e1 == AppendIf(<< >>, TrimSpace(s.Name) = << >>, "name is required")
        e2 == AppendIf(e1, ByteLen(s.Name) > 255, "name must be less than 255 characters")
        e3 == AppendIf(e2, TrimSpace(s.Slug) = << >>, "slug is required")
        e4 == AppendIf(e3, s.PriceRange # 0 /\ ~PriceRangeIsValid(s.PriceRange),
                       "price_range must be between 1 and 4")
        e5 == AppendIf(e4, s.Rating # Nil /\ (Deref(s.Rating) < 0 \/ Deref(s.Rating) > 50),
                       "rating must be between 0 and 5")
        e6 == AppendIf(e5, s.Location.GeoPoint # Nil
                           /\ ~GeoPointIsValid(Deref(s.Location.GeoPoint)),
                       "invalid geo coordinates")
    IN  e6

\* A price range taken to be inverted already when its ends are equal.
PriceMinNotBelow(s) ==
    s.PriceMin # Nil /\ s.PriceMax # Nil /\ Deref(s.PriceMin) >= Deref(s.PriceMax)

\* s.PriceMin != nil && s.PriceMax != nil && *s.PriceMin > *s.PriceMax
PriceMinAbove(s) ==
    s.PriceMin # Nil /\ s.PriceMax # Nil /\ Deref(s.PriceMin) > Deref(s.PriceMax)

\* Service.Validate: the messages of errs in the order they are appended.
ServiceValidate(s) ==
    LET e1 == AppendIf(<< >>, TrimSpace(s.Name) = << >>, "name is required")
        e2 == AppendIf(e1, s.SalonID <= 0, "salon_id is required")
        e3 == AppendIf(e2, s.PriceMin # Nil /\ Deref(s.PriceMin) < 0,
                       "price_min cannot be negative")
        e4 == AppendIf(e3, s.PriceMax # Nil /\ Deref(s.PriceMax) < 0,
                       "price_max cannot be negative")
        e5 == AppendIf(e4, PriceMinAbove(s), "price_min cannot be greater than price_max")
        e6 == AppendIf(e5, s.DurationMinutes # Nil /\ Deref(s.DurationMinutes) <= 0,
                       "duration_minutes must be positive")
    IN  e6

\* A Go string of digits and colons, as the sequence of its bytes.
Digit(d) == 48 + d
Colon == 58

\* t.Format("15:04:05"): hour, minute and second of t, two digits each.
Format150405(t) ==
    << Digit(t.hour \div 10), Digit(t.hour % 10), Colon,
       Digit(t.minute \div 10), Digit(t.minute % 10), Colon,
       Digit(t.second \div 10), Digit(t.second % 10) >>

\* a <= b on Go strings: byte by byte, a proper prefix coming first.
RECURSIVE StringLeq(_, _)
StringLeq(a, b) ==
    IF a = << >> THEN TRUE
    ELSE IF b = << >> THEN FALSE
    ELSE IF Head(a) # Head(b) THEN Head(a) < Head(b)
    ELSE StringLeq(Tail(a), Tail(b))

\* The opening test with the closing time itself left outside.
WithinHoursBeforeClose(currentTime, oh) ==
    StringLeq(oh.OpenTime, currentTime) /\ ~StringLeq(oh.CloseTime, currentTime)

\* currentTime >= oh.OpenTime && currentTime <= oh.CloseTime
WithinHours(currentTime, oh) ==
    StringLeq(oh.OpenTime, currentTime) /\ StringLeq(currentTime, oh.CloseTime)

\* Salon.IsOpen(t)
IsOpen(s, t) ==
    IF Len(s.OperatingHours) = 0 THEN FALSE
    ELSE LET dayOfWeek == t.weekday
             currentTime == Format150405(t)
         IN  \E i \in 1..Len(s.OperatingHours) :
                LET oh == s.OperatingHours[i]
                IN  /\ oh.DayOfWeek = dayOfWeek
                    /\ ~oh.IsClosed
                    /\ WithinHours(currentTime, oh)

\* A method call that has returned: the receiver as the method left it and
\* the value returned.
Returned(c, recv, result) ==
    [method |-> c.method, recv |-> c.recv, arg |-> c.arg, done |-> TRUE,
     after |-> recv, result |-> result]

\* s.Validate() on a salon.
CallSalonValidate ==
    /\ call.method = "Salon.Validate"
    /\ ~call.done
    /\ call' = Returned(call, call.recv, SalonValidate(call.recv))
    /\ UNCHANGED <<db, index, params, sqlQuery, esQuery, pgOut, esOut, http, response, wire, sync>>

\* ------------------------------------------------------------------------
\* Initial states
\* ------------------------------------------------------------------------

\* Two salons of the seed data, and a third whose columns are drawn.
SeedRows ==
    << Row(1, "Peluqueria Mar", Some("Mar del Plata"), Some(1), Some(2), Some(48),
           Some(5), TRUE, TRUE, Some(-38), Some(Meridian), 1),
       Row(2, "Barberia Sur", Some("Miami"), Some(2), Nil, Nil,
           Some(0), TRUE, FALSE, Nil, Nil, 2) >>

DrawnRows ==
    { Row(3, "Spa Relax", city, cat, price, rating, Some(2), active, verified,
          geo[1], geo[2], 3) :
        city \in {Some("Mar del Plata"), Some("Miami")},
        cat \in {Nil, Some(1), Some(2)},
        price \in {Nil, Some(1), Some(2)},
        rating \in {Nil, Some(40), Some(50)},
        active \in BOOLEAN, verified \in BOOLEAN,
        geo \in { <<Nil, Nil>>, <<Some(-38), Some(Meridian)>>,
                  <<Some(-37), Some(Meridian)>>, <<Some(-38), Nil>> } }

Table(row) == Append(SeedRows, row)

\* The index holding the document of every row of a table.
RECURSIVE IndexOf(_, _)
IndexOf(table, n) ==
    IF n = 0 THEN EmptyIndex ELSE IndexSalon(IndexOf(table, n - 1), toDomain(table[n]))

\* Requests on the first page with the default sort that vary the city,
\* category and price filters, with the other filters all unset or all set.
AttributeParams ==
    { SalonSearchParams("", city, cat, price, rest[1], rest[2], rest[3], rest[4],
                        1, DefaultPageSize, "") :
        city \in {"", "Mar del Plata", "mar del plata"},
        cat \in {Nil, Some(1)}, price \in {0, 1},
        rest \in { <<Nil, Nil, Nil, Nil>>,
                   <<Some(45), Some(TRUE), Some(Centre), Some(15000)>> } }

\* Requests that vary the rating, verified and geo filters, with the other
\* filters all unset or all set.
QualityParams ==
    { SalonSearchParams("", rest[1], rest[2], rest[3], rating, verified, loc, radius,
                        1, DefaultPageSize, "") :
        rating \in {Nil, Some(45)}, verified \in {Nil, Some(TRUE)},
        loc \in {Nil, Some(Centre)}, radius \in RadiusInputs,
        rest \in { <<"", Nil, 0>>, <<"mar del plata", Some(1), 1>> } }

FilterParams == AttributeParams \cup QualityParams

\* Requests that vary the text, the sort policy and the page.
PagingParams ==
    { SalonSearchParams(q, "", Nil, 0, Nil, Nil, loc, Nil, page, size, sort) :
        q \in {"", "spa", "peluqeria"}, loc \in {Nil, Some(Centre)},
        page \in 1..MaxPage, size \in 1..MaxPageSize, sort \in SortInputs }

\* The third row of the table the paging requests run against.
PagingRow ==
    Row(3, "Spa Relax", Some("Mar del Plata"), Some(1), Some(1), Some(48), Some(2),
        TRUE, FALSE, Some(-37), Some(Meridian), 3)

InitSearch(table, p) ==
    /\ db = table
    /\ index = IndexOf(table, Len(table))
    /\ params = p
    /\ sqlQuery = Nil
    /\ esQuery = Nil
    /\ pgOut = Idle
    /\ esOut = Idle
    /\ http = NoHttp
    /\ response = Nil
    /\ call = NoCall
    /\ wire = << >>
    /\ sync = NoSync

\* A table with one drawn row, indexed, and one filtering request; or the
\* paging table and one paging request.
Init ==
    \/ \E row \in DrawnRows : \E p \in FilterParams : InitSearch(Table(row), p)
    \/ \E p \in PagingParams : InitSearch(Table(PagingRow), p)

Next == SearchSalons \/ Search

Spec == Init /\ [][Next]_vars

\* Every combination of search parameters against the paging table: the
\* specification under which the two compilers are compared.
InitCompile == \E p \in AllParams : InitSearch(Table(PagingRow), p)

SpecCompile == InitCompile /\ [][Next]_vars

\* The query strings of the requests: the page and page size absent, zero,
\* negative, not numeric, at and past the largest int; a text query or
\* none; a sort policy or none; the filters all absent, all given or all
\* not numeric.
Urls ==
    { [ q |-> q, city |-> rest[1], category |-> rest[2], price_range |-> rest[3],
        min_rating |-> rest[4], verified |-> rest[5], lat |-> rest[6],
        lon |-> rest[6], radius |-> rest[7], sort |-> sort, page |-> page,
        page_size |-> size ] :
        q \in {"", "spa"}, sort \in {"", SortByRating},
        rest \in { <<"", Absent, Absent, Absent, "", Absent, Absent>>,
                   <<"Mar del Plata", Numeral(1), Numeral(1), Numeral(45), "true",
                     Numeral(-38), Numeral(15000)>>,
                   <<"", Text, Text, Text, "false", Text, Text>> },
        page \in {Absent, Text, Numeral(MaxInt + 1)} \cup { Numeral(n) : n \in -1..MaxPage },
        size \in {Absent, Text, Numeral(MaxInt), Numeral(MaxInt + 1)}
                 \cup { Numeral(n) : n \in -1..MaxPageSize } }

\* The Go zero value of SalonSearchParams.
NoParams == SalonSearchParams("", "", Nil, 0, Nil, Nil, Nil, Nil, 0, 0, "")

\* A request for one of the two search routes arrives at the running server.
InitHandler ==
    /\ db = Table(PagingRow)
    /\ index = IndexOf(db, Len(db))
    /\ params = NoParams
    /\ sqlQuery = Nil
    /\ esQuery = Nil
    /\ pgOut = Idle
    /\ esOut = Idle
    /\ response = Nil
    /\ call = NoCall
    /\ wire = << >>
    /\ sync = NoSync
    /\ \E path \in {"/api/v1/search", "/api/v1/search/postgres"} : \E url \in Urls :
          http = [stage |-> "request", path |-> path, url |-> url]

\* NewSearchResponse applied to the parameters of the request served and a
\* total match count.
BuildSearchResponse ==
    /\ http.stage = "response"
    /\ http.reply.status = 200
    /\ response = Nil
    /\ \E total \in 0..MaxTotal :
          response' = Some(NewSearchResponse(<< >>, total, params))
    /\ UNCHANGED <<db, index, params, sqlQuery, esQuery, pgOut, esOut, http, call, wire, sync>>

NextHandler == HandlerSearchSalons \/ HandlerSearchSalonsPostgres \/ BuildSearchResponse

SpecHandler == InitHandler /\ [][NextHandler]_vars

\* s.Validate() on a service.
CallServiceValidate ==
    /\ call.method = "Service.Validate"
    /\ ~call.done
    /\ call' = Returned(call, call.recv, ServiceValidate(call.recv))
    /\ UNCHANGED <<db, index, params, sqlQuery, esQuery, pgOut, esOut, http, response, wire, sync>>

\* s.IsOpen(t)
CallSalonIsOpen ==
    /\ call.method = "Salon.IsOpen"
    /\ ~call.done
    /\ call' = Returned(call, call.recv, IsOpen(call.recv, call.arg))
    /\ UNCHANGED <<db, index, params, sqlQuery, esQuery, pgOut, esOut, http, response, wire, sync>>

\* g.DistanceTo(other)
CallDistanceTo ==
    /\ call.method = "GeoPoint.DistanceTo"
    /\ ~call.done
    /\ call' = Returned(call, call.recv, DistanceTo(call.recv, call.arg))
    /\ UNCHANGED <<db, index, params, sqlQuery, esQuery, pgOut, esOut, http, response, wire, sync>>

\* es.salonToDocument(salon), and es.documentToSalon of the document as a
\* hit's _source returns it.
CallSalonToDocument ==
    /\ call.method = "salonToDocument"
    /\ ~call.done
    /\ call' = Returned(call, call.recv,
                        [doc   |-> salonToDocument(call.recv),
                         salon |-> documentToSalon(salonToDocument(call.recv))])
    /\ UNCHANGED <<db, index, params, sqlQuery, esQuery, pgOut, esOut, http, response, wire, sync>>

\* The names and slugs of the salons validated: empty, blank, short, of
\* exactly 255 and of 256 one-byte characters, of 128 two-byte characters,
\* and padded with spaces.
NameInputs ==
    { << >>, << Run(" ", 3) >>, << Run("a", 5) >>, << Run("a", 255) >>,
      << Run("a", 256) >>, << Run("e'", 128) >>, << Run(" ", 1), Run("a", 3), Run(" ", 1) >>,
      << Run(" ", 256) >> }

SlugInputs == { << >>, << Run(" ", 2) >>, << Run("a", 5) >> }

\* The salons validated.
SalonInputs ==
    { [ Name |-> name, Slug |-> slug, PriceRange |-> price, Rating |-> rating,
        Location |-> [GeoPoint |-> geo] ] :
        name \in NameInputs, slug \in SlugInputs,
        price \in {-1, 0, 1, 4, 5, 10},
        rating \in {Nil, Some(-10), Some(0), Some(48), Some(50), Some(55)},
        geo \in {Nil, Some(GeoPoint(-38, -57)), Some(GeoPoint(100, 0)),
                 Some(GeoPoint(-90, 180)), Some(GeoPoint(0, -181))} }

\* The services validated; prices are in cents.
ServiceInputs ==
    { [ Name |-> name, SalonID |-> salon, PriceMin |-> lo, PriceMax |-> hi,
        DurationMinutes |-> duration ] :
        name \in {<< >>, << Run(" ", 2) >>, << Run("a", 5) >>},
        salon \in {-1, 0, 1},
        lo \in {Nil, Some(-100), Some(0), Some(2000), Some(5000)},
        hi \in {Nil, Some(-100), Some(0), Some(2000), Some(5000)},
        duration \in {Nil, Some(-5), Some(0), Some(30)} }

\* A point in time, by the weekday and the wall clock of its location.
Time(weekday, hour, minute, second) ==
    [weekday |-> weekday, hour |-> hour, minute |-> minute, second |-> second]

\* The instants asked about: Sunday (0) and Monday (1), around 09:00 and 18:00.
TimeInputs ==
    { Time(d, c[1], c[2], c[3]) :
        d \in {0, 1},
        c \in { <<8, 59, 59>>, <<9, 0, 0>>, <<10, 0, 0>>, <<17, 0, 0>>,
                <<18, 0, 0>>, <<18, 0, 1>>, <<20, 0, 0>> } }

\* A time of day as operating hours hold it, "09:00:00".
ClockString(hour, minute, second) == Format150405(Time(0, hour, minute, second))

OperatingHours(day, open, close, closed) ==
    [DayOfWeek |-> day, OpenTime |-> open, CloseTime |-> close, IsClosed |-> closed]

\* Entries: Monday 09:00-18:00, Sunday closed, Monday flagged closed over
\* the same hours, Sunday 10:00-17:00, Monday 20:00 only.
HoursEntries ==
    { OperatingHours(1, ClockString(9, 0, 0), ClockString(18, 0, 0), FALSE),
      OperatingHours(0, << >>, << >>, TRUE),
      OperatingHours(1, ClockString(9, 0, 0), ClockString(18, 0, 0), TRUE),
      OperatingHours(0, ClockString(10, 0, 0), ClockString(17, 0, 0), FALSE),
      OperatingHours(1, ClockString(20, 0, 0), ClockString(20, 0, 0), FALSE) }

\* Salons by their operating hours: none, one entry or two.
HoursInputs ==
    { [OperatingHours |-> hs] :
        hs \in {<< >>} \cup { <<a>> : a \in HoursEntries }
                \cup { <<a, b>> : a \in HoursEntries, b \in HoursEntries } }

\* Valid coordinate pairs: the poles, the equator, the date line from both
\* sides, and points around Mar del Plata.
PointInputs ==
    { GeoPoint(lat, lon) :
        lat \in {-90, -38, -37, 0, 45, 90},
        lon \in {-180, -58, Meridian, 0, 180} }

\* The services and amenities a salon may come with.
ServiceLists ==
    { << >>,
      << [Name |-> "Corte", SalonID |-> 3, PriceMin |-> Nil, PriceMax |-> Nil,
          DurationMinutes |-> Nil] >>,
      << [Name |-> "Corte", SalonID |-> 3, PriceMin |-> Some(2000), PriceMax |-> Nil,
          DurationMinutes |-> Some(30)],
         [Name |-> "Color", SalonID |-> 3, PriceMin |-> Some(5000),
          PriceMax |-> Some(9000), DurationMinutes |-> Nil] >> }

AmenityLists ==
    { << >>, << [ID |-> 1, Name |-> "WiFi", Icon |-> "wifi"] >>,
      << [ID |-> 1, Name |-> "WiFi", Icon |-> "wifi"],
         [ID |-> 2, Name |-> "Parking", Icon |-> ""] >> }

\* The salons converted to documents: the seeded rows and a drawn row as
\* salons, with or without a description, services and amenities.
DocumentInputs ==
    { [toDomain(row) EXCEPT !.Description = description, !.Services = services,
                            !.Amenities = amenities] :
        row \in { SeedRows[1], SeedRows[2] }
                 \cup { r \in DrawnRows : r.is_active /\ r.city = Some("Miami") },
        description \in {Nil, Some("Cortes y color")},
        services \in ServiceLists, amenities \in AmenityLists }

\* A call about to be made.
Calling(method, recv, arg) == [method |-> method, recv |-> recv, arg |-> arg, done |-> FALSE]

\* The calls of the domain methods.
Calls ==
    { Calling("Salon.Validate", s, Nil) : s \in SalonInputs }
    \cup { Calling("Service.Validate", s, Nil) : s \in ServiceInputs }
    \cup { Calling("Salon.IsOpen", s, t) : s \in HoursInputs, t \in TimeInputs }
    \cup { Calling("GeoPoint.DistanceTo", a, b) : a \in PointInputs, b \in PointInputs }
    \cup { Calling("salonToDocument", s, Nil) : s \in DocumentInputs }

\* One method of the domain types is called on one receiver.
InitDomain ==
    /\ db = SeedRows
    /\ index = IndexOf(db, Len(db))
    /\ params = NoParams
    /\ sqlQuery = Nil
    /\ esQuery = Nil
    /\ pgOut = Idle
    /\ esOut = Idle
    /\ http = NoHttp
    /\ response = Nil
    /\ call \in Calls
    /\ wire = << >>
    /\ sync = NoSync

NextDomain ==
    \/ CallSalonValidate \/ CallServiceValidate \/ CallSalonIsOpen \/ CallDistanceTo
    \/ CallSalonToDocument

SpecDomain == InitDomain /\ [][NextDomain]_vars

\* ------------------------------------------------------------------------
\* Properties
\* ------------------------------------------------------------------------

\* ------------------------------------------------------------------------
\* One salon by id (PostgresRepository.GetSalonByID, Handler.GetSalon)
\* ------------------------------------------------------------------------

\* The rows of services, of amenities joined through salon_amenities, and
\* of operating_hours that belong to a salon.
ServicesOf(id) ==
    CASE id = 1 -> << [Name |-> "Corte y Peinado", SalonID |-> 1, PriceMin |-> Some(8000),
                       PriceMax |-> Some(15000), DurationMinutes |-> Some(60)] >>
      [] id = 2 -> << [Name |-> "Corte Clasico", SalonID |-> 2, PriceMin |-> Some(4000),
                       PriceMax |-> Some(6000), DurationMinutes |-> Some(30)] >>
      [] OTHER -> << >>

AmenitiesOf(id) ==
    CASE id = 1 -> << [ID |-> 1, Name |-> "WiFi", Icon |-> "wifi"],
                      [ID |-> 4, Name |-> "Parking", Icon |-> "car"] >>
      [] id = 3 -> << [ID |-> 1, Name |-> "WiFi", Icon |-> "wifi"] >>
      [] OTHER -> << >>

HoursOf(id) ==
    IF id = 1
    THEN << OperatingHours(2, ClockString(10, 0, 0), ClockString(19, 0, 0), FALSE) >>
    ELSE << >>

\* sql.ErrNoRows, which GetContext returns when no row has the id.
ErrNoRows == "sql: no rows in result set"

\* The four reads of GetSalonByID in the order of the code.
Reads == << Select("salon"), Select("services"), Select("amenities"),
            Select("operating_hours") >>

\* Every read issued whether or not an earlier one failed.
ReadsAll(k) == Reads

\* The reads issued when the k-th is the last: each error returns at once.
ReadsUntil(k) == SubSeq(Reads, 1, k)

\* fmt.Errorf("failed to get ...: %w", err) at the k-th read: the error
\* with its cause, and no salon.
GetFailed(cause, k) ==
    [ status |-> "error", salons |-> << >>, total |-> 0, cause |-> cause,
      reads |-> ReadsUntil(k) ]

\* PostgresRepository.GetSalonByID(id): the outcomes of reading the salon
\* with that id (active or not) and then its services, amenities and
\* hours. The first read fails with sql.ErrNoRows when no row has the id;
\* any read may fail for a reason of the backend; the salon is returned,
\* with the three collections attached, when all four succeeded.
GetSalonByID(table, id) ==
    LET found == { k \in 1..Len(table) : table[k].id = id }
    IN  { GetFailed("connection refused", 1) }
          \cup (IF found = { } THEN { GetFailed(ErrNoRows, 1) } ELSE { })
          \cup { GetFailed("connection refused", k) : k \in { j \in 2..4 : found # { } } }
          \cup { [ status |-> "ok",
                   salons |-> << [ toDomain(table[k]) EXCEPT
                                     !.Services = ServicesOf(id),
                                     !.Amenities = AmenitiesOf(id),
                                     !.OperatingHours = HoursOf(id) ] >>,
                   total  |-> 1,
                   cause  |-> "",
                   reads  |-> ReadsUntil(4) ] : k \in found }

\* The statement GetSalonByID prepares.
ByIdQuery(id) == [text |-> "SELECT ... FROM salons s ... WHERE s.id = $1", args |-> <<id>>]

\* c.JSON(http.StatusBadRequest, gin.H{"error": "Invalid salon ID"})
InvalidSalonID == [status |-> 400, body |-> [error |-> "Invalid salon ID"]]

\* c.JSON(http.StatusNotFound, gin.H{"error": "Salon not found"})
SalonNotFound == [status |-> 404, body |-> [error |-> "Salon not found"]]

\* Handler.GetSalon, GET /api/v1/salons/:id: parse the id, read the salon,
\* reply 404 on any error of the read and 200 with the salon otherwise.
HandlerGetSalon ==
    /\ http.stage = "request"
    /\ http.path = "/api/v1/salons/:id"
    /\ LET id == Atoi(http.url.id)
       IN  IF id = Nil
           THEN /\ http' = Replied(http, InvalidSalonID)
                /\ UNCHANGED <<sqlQuery, pgOut, wire>>
           ELSE /\ sqlQuery' = Some(ByIdQuery(Deref(id)))
                /\ \E out \in GetSalonByID(db, Deref(id)) :
                      /\ pgOut' = out
                      /\ wire' = wire \o out.reads
                      /\ http' = Replied(http, IF out.status # "ok"
                                               THEN SalonNotFound
                                               ELSE [status |-> 200, body |-> out.salons[1]])
    /\ UNCHANGED <<db, index, params, esQuery, esOut, response, call, sync>>

\* repo.GetSalonByID(ctx, id) called directly.
CallGetSalonByID ==
    /\ call.method = "GetSalonByID"
    /\ ~call.done
    /\ sqlQuery' = Some(ByIdQuery(call.arg))
    /\ \E out \in GetSalonByID(db, call.arg) :
          /\ pgOut' = out
          /\ wire' = wire \o out.reads
          /\ call' = [method |-> call.method, recv |-> call.recv, arg |-> call.arg,
                      done |-> TRUE, after |-> call.recv, result |-> out]
    /\ UNCHANGED <<db, index, params, esQuery, esOut, http, response, sync>>

\* The ids asked for: of a seeded row, of the drawn row, of no row, zero,
\* not a number, past the largest int.
IdInputs == { Numeral(n) : n \in 0..4 } \cup {Text, Numeral(MaxInt + 1)}

\* A request for one salon arrives at the running server, or the repository
\* is asked for one salon directly.
InitSalon ==
    /\ \E row \in DrawnRows : db = Table(row)
    /\ index = IndexOf(db, Len(db))
    /\ params = NoParams
    /\ sqlQuery = Nil
    /\ esQuery = Nil
    /\ pgOut = Idle
    /\ esOut = Idle
    /\ response = Nil
    /\ wire = << >>
    /\ sync = NoSync
    /\ \/ /\ call = NoCall
          /\ \E id \in IdInputs :
                http = [stage |-> "request", path |-> "/api/v1/salons/:id",
                        url |-> [id |-> id]]
       \/ /\ http = NoHttp
          /\ \E id \in 0..4 : call = Calling("GetSalonByID", Nil, id)

NextSalon == HandlerGetSalon \/ CallGetSalonByID

SpecSalon == InitSalon /\ [][NextSalon]_vars

\* ------------------------------------------------------------------------
\* The full sync (Handler.SyncToElasticsearch, POST /api/v1/admin/sync)
\* ------------------------------------------------------------------------

\* The requests being served at once by the sync handler.
Syncs == {1, 2}

\* A run of the handler that has not started: pc is the call it makes
\* next, calls the requests it has sent to the two backends.
IdleRun == [pc |-> "GetAllSalons", salons |-> << >>, calls |-> << >>, reply |-> Nil]

\* The salons of the table that WHERE s.is_active = true ORDER BY s.id keeps.
ActiveRows(table) == SelectSeq(table, LAMBDA r : r.is_active)

\* PostgresRepository.GetAllSalons: one SELECT of the active rows in id
\* order, each converted by toDomain; or the read fails.
GetAllSalons(table) ==
    LET rows == ActiveRows(table)
    IN  { Failed,
          [ status |-> "ok",
            salons |-> [i \in 1..Len(rows) |-> toDomain(rows[i])],
            total  |-> 0 ] }

\* The reads by id the enrichment loop may get for one salon: the salon
\* with its collections, or a failure of the first read.
EnrichReads(table, id) ==
    { out \in GetSalonByID(table, id) : out.status = "ok" \/ Len(out.reads) = 1 }

\* One turn of the loop: Services and Amenities are copied from the salon
\* read by id when the read succeeded; an error leaves the salon as fetched.
Enriched(salon, out) ==
    IF out.status = "ok"
    THEN [ salon EXCEPT !.Services = out.salons[1].Services,
                        !.Amenities = out.salons[1].Amenities ]
    ELSE salon

\* The index after the engine deleted it.
MissingIndex == [exists |-> FALSE, docs |-> << >>]

\* ElasticsearchClient.DeleteIndex: the transport or the engine fails and
\* the index stays; or the index is deleted; index_not_found is no error.
DeleteIndex(idx) ==
    { [err |-> TRUE, index |-> idx], [err |-> FALSE, index |-> MissingIndex] }

\* The Indices.Create call of CreateIndex: the engine refuses to create an
\* index that exists, or the call fails; otherwise the index is there, empty.
IndicesCreate(idx) ==
    { [err |-> TRUE, index |-> idx] }
      \cup (IF idx.exists THEN { } ELSE { [err |-> FALSE, index |-> EmptyIndex] })

\* The documents one Bulk request writes: one "index" action per salon,
\* with _id the salon's ID and salonToDocument as source; the engine
\* creates a missing index on the first write. The items in rejected are
\* answered with an error of their own inside the 200 response.
RECURSIVE BulkWrite(_, _, _, _)
BulkWrite(idx, salons, n, rejected) ==
    IF n = 0 THEN [idx EXCEPT !.exists = TRUE]
    ELSE LET before == BulkWrite(idx, salons, n - 1, rejected)
         IN  IF salons[n].ID \in rejected THEN before
             ELSE IndexSalon(before, salons[n])

\* ElasticsearchClient.BulkIndexSalons: nothing is sent for no salon; the
\* request fails as a whole (err or res.IsError()) and nil is returned in
\* every other case, whatever the response says of its items.
BulkIndexSalons(idx, salons) ==
    IF Len(salons) = 0
    THEN { [err |-> FALSE, index |-> idx, sent |-> << >>] }
    ELSE { [err |-> TRUE, index |-> idx, sent |-> << EsCall("Bulk", TRUE) >>] }
           \cup { [ err |-> FALSE,
                    index |-> BulkWrite(idx, salons, Len(salons), rejected),
                    sent |-> << EsCall("Bulk", TRUE) >> ] :
                  rejected \in SUBSET { salons[i].ID : i \in 1..Len(salons) } }

\* c.JSON(http.StatusInternalServerError, gin.H{"error": "Failed to ..."})
SyncFailed(what) == [status |-> 500, body |-> [error |-> what]]

\* c.JSON(http.StatusOK, gin.H{"message": ..., "count": len(salons)})
SyncCompleted(salons) ==
    [status |-> 200, body |-> [message |-> "Sync completed successfully",
                               count |-> Len(salons)]]

\* The run r has sent some requests and moves on to its next call with
\* the salons it holds, or replies and ends.
Goes(r, sent, pc, salons) ==
    sync' = [sync EXCEPT ![r].pc = pc, ![r].salons = salons, ![r].calls = @ \o sent]

Ends(r, sent, reply) ==
    sync' = [sync EXCEPT ![r].pc = "done", ![r].calls = @ \o sent,
                         ![r].reply = Some(reply)]

\* The reads of the enrichment loop, one salon after the other.
RECURSIVE LoopReads(_, _)
LoopReads(outs, n) == IF n = 0 THEN << >> ELSE LoopReads(outs, n - 1) \o outs[n].reads

\* salons, err := h.repo.GetAllSalons(ctx)
SyncFetch(r) ==
    /\ sync[r].pc = "GetAllSalons"
    /\ \E out \in GetAllSalons(db) :
          IF out.status # "ok"
          THEN Ends(r, << Select("salons") >>, SyncFailed("Failed to fetch salons"))
          ELSE Goes(r, << Select("salons") >>, "GetSalonByID", out.salons)
    /\ UNCHANGED <<db, index, params, sqlQuery, esQuery, pgOut, esOut, http, response, call,
                   wire>>

\* for i := range salons { fullSalon, err := h.repo.GetSalonByID(...) ... }
SyncEnrich(r) ==
    /\ sync[r].pc = "GetSalonByID"
    /\ LET salons == sync[r].salons
       IN  \E outs \in [1..Len(salons) -> UNION { EnrichReads(db, salons[i].ID) :
                                                   i \in 1..Len(salons) }] :
              /\ \A i \in 1..Len(salons) : outs[i] \in EnrichReads(db, salons[i].ID)
              /\ Goes(r, LoopReads(outs, Len(salons)), "DeleteIndex",
                      [i \in 1..Len(salons) |-> Enriched(salons[i], outs[i])])
    /\ UNCHANGED <<db, index, params, sqlQuery, esQuery, pgOut, esOut, http, response, call,
                   wire>>

\* if err := h.es.DeleteIndex(ctx); err != nil { ... return }
SyncDeleteIndex(r) ==
    /\ sync[r].pc = "DeleteIndex"
    /\ \E out \in DeleteIndex(index) :
          /\ index' = out.index
          /\ IF out.err
             THEN Ends(r, << EsCall("Indices.Delete", TRUE) >>,
                       SyncFailed("Failed to delete index"))
             ELSE Goes(r, << EsCall("Indices.Delete", TRUE) >>, "Indices.Exists",
                       sync[r].salons)
    /\ UNCHANGED <<db, params, sqlQuery, esQuery, pgOut, esOut, http, response, call, wire>>

\* CreateIndex, first call: res, err := es.client.Indices.Exists(...);
\* if res.StatusCode == 200 { return nil }
SyncIndexExists(r) ==
    /\ sync[r].pc = "Indices.Exists"
    /\ \/ Ends(r, << EsCall("Indices.Exists", FALSE) >>,
               SyncFailed("Failed to create index"))
       \/ Goes(r, << EsCall("Indices.Exists", FALSE) >>,
               IF index.exists THEN "Bulk" ELSE "Indices.Create", sync[r].salons)
    /\ UNCHANGED <<db, index, params, sqlQuery, esQuery, pgOut, esOut, http, response, call,
                   wire>>

\* CreateIndex, second call: es.client.Indices.Create(...)
SyncCreateIndex(r) ==
    /\ sync[r].pc = "Indices.Create"
    /\ \E out \in IndicesCreate(index) :
          /\ index' = out.index
          /\ IF out.err
             THEN Ends(r, << EsCall("Indices.Create", TRUE) >>,
                       SyncFailed("Failed to create index"))
             ELSE Goes(r, << EsCall("Indices.Create", TRUE) >>, "Bulk", sync[r].salons)
    /\ UNCHANGED <<db, params, sqlQuery, esQuery, pgOut, esOut, http, response, call, wire>>

\* if err := h.es.BulkIndexSalons(ctx, salons); err != nil { ... return }
\* and the reply that ends the handler.
SyncBulk(r) ==
    /\ sync[r].pc = "Bulk"
    /\ \E out \in BulkIndexSalons(index, sync[r].salons) :
          /\ index' = out.index
          /\ Ends(r, out.sent, IF out.err THEN SyncFailed("Failed to index salons")
                                          ELSE SyncCompleted(sync[r].salons))
    /\ UNCHANGED <<db, params, sqlQuery, esQuery, pgOut, esOut, http, response, call, wire>>

\* A write to the relational store by another client: the third salon is
\* deactivated (UPDATE salons SET is_active = false WHERE id = 3).
Deactivate ==
    /\ db[3].is_active
    /\ db' = [db EXCEPT ![3].is_active = FALSE]
    /\ UNCHANGED <<index, params, sqlQuery, esQuery, pgOut, esOut, http, response, call,
                   wire, sync>>

\* The search every client of the model sends: no text, no filter, the
\* first page, the default sort.
BrowseParams ==
    SalonSearchParams("", "", Nil, 0, Nil, Nil, Nil, Nil, 1, DefaultPageSize, "")

\* A salon that was indexed by an earlier sync and whose row is gone.
GoneSalon ==
    toDomain(Row(4, "Estetica Norte", Some("Miami"), Some(2), Some(1), Some(40), Some(1),
                 TRUE, FALSE, Nil, Nil, 4))

\* The index an earlier, complete sync of the table left, without or with
\* the document of the salon that is gone.
SyncedIndex == IndexOf(Table(PagingRow), 3)

EarlierIndexes == { SyncedIndex, IndexSalon(SyncedIndex, GoneSalon) }

\* The table with its three salons active, or with the third deactivated;
\* the index as an earlier sync left it, with or without the document of
\* a salon that is gone; two runs of the sync handler and one search of
\* the engine, in any order.
InitSync ==
    /\ db \in { Table(PagingRow), Table([PagingRow EXCEPT !.is_active = FALSE]) }
    /\ index \in EarlierIndexes
    /\ params = BrowseParams
    /\ sqlQuery = Nil
    /\ esQuery = Nil
    /\ pgOut = Idle
    /\ esOut = Idle
    /\ http = NoHttp
    /\ response = Nil
    /\ call = NoCall
    /\ wire = << >>
    /\ sync = [r \in Syncs |-> IdleRun]

NextSync ==
    \/ \E r \in Syncs :
          \/ SyncFetch(r)
          \/ SyncEnrich(r)
          \/ SyncDeleteIndex(r)
          \/ SyncIndexExists(r)
          \/ SyncCreateIndex(r)
          \/ SyncBulk(r)
    \/ Deactivate
    \/ Search

SpecSync == InitSync /\ [][NextSync]_vars

Outputs == {pgOut, esOut}

Salons(out) == { out.salons[i] : i \in 1..Len(out.salons) }

Ids(out) == { out.salons[i].ID : i \in 1..Len(out.salons) }

\* Whether a returned salon satisfies the filters of the request other
\* than the city filter.
MeetsFilters(s, p) ==
    /\ s.IsActive
    /\ p.CategoryID # Nil => s.CategoryID = p.CategoryID
    /\ p.PriceRange # 0 => s.PriceRange = p.PriceRange
    /\ p.MinRating # Nil => (s.Rating # Nil /\ Deref(s.Rating) >= Deref(p.MinRating))
    /\ p.IsVerified = Some(TRUE) => s.IsVerified

\* C1 as stated: on either backend every returned salon is active and
\* satisfies each supplied filter, its city being equal to the city filter.
C1_ExactCity ==
    \A out \in Outputs : out.status = "ok" =>
        \A s \in Salons(out) :
            /\ MeetsFilters(s, params)
            /\ params.City # "" => s.Location.City = params.City

\* C1 amended: on either backend every returned salon is active and
\* satisfies each supplied filter, its city being equal to the city filter
\* up to letter case.
C1_ResultsMeetFilters ==
    \A out \in Outputs : out.status = "ok" =>
        \A s \in Salons(out) :
            /\ MeetsFilters(s, params)
            /\ params.City # "" => Lower(s.Location.City) = Lower(params.City)

\* Both backends answered a request with every filter set, and returned
\* the drawn salon.
C1_Witness ==
    /\ params.City # "" /\ params.CategoryID # Nil /\ params.PriceRange # 0
    /\ params.MinRating # Nil /\ params.IsVerified = Some(TRUE)
    /\ \A out \in Outputs : out.status = "ok" /\ 3 \in Ids(out)

\* C2: the total of a relational search is the number of rows that match
\* the filters, whatever page and page size were requested.
C2_TotalIsMatchCount ==
    pgOut.status = "ok" =>
        pgOut.total = Cardinality(Matching(SearchSalonsQuery(params), db))

\* The page size and page after non-positive values are replaced.
ClaimedPageSize(p) == IF p.PageSize <= 0 THEN 10 ELSE p.PageSize

ClaimedPage(p) == IF p.Page <= 0 THEN 1 ELSE p.Page

\* ceil(a / b) for a >= 0 and b >= 1.
CeilDiv(a, b) == (a + b - 1) \div b

\* The total the backend behind the request's route returned.
RouteTotal == IF http.path = "/api/v1/search" THEN esOut.total ELSE pgOut.total

\* The handler replied 200 to the request.
Served == http.stage = "response" /\ http.reply.status = 200

\* The handler's reply carries ceil(total / page_size) pages.
ReplyPagesRight ==
    (Served) =>
        http.reply.body.total_pages = CeilDiv(http.reply.body.total, http.reply.body.page_size)

\* The handler's reply echoes total, page, page size and query.
ReplyEchoes ==
    (Served) =>
        /\ http.reply.body.total = RouteTotal
        /\ http.reply.body.page = params.Page
        /\ http.reply.body.page_size = params.PageSize
        /\ Has(http.reply.body, "query") /\ http.reply.body.query = params.Query

\* NewSearchResponse carries ceil(total / pageSize) pages and echoes page,
\* page size and query.
DomainResponseRight ==
    response # Nil =>
        LET r == Deref(response)
        IN  /\ r.TotalPages = CeilDiv(r.Total, r.PageSize)
            /\ r.Page = params.Page
            /\ r.PageSize = params.PageSize
            /\ r.Query = params.Query

\* C3: the page count of a search response is ceil(total / pageSize), in
\* NewSearchResponse and in the handler's sendSearchResponse alike, and
\* total, page, page size and query are echoed unchanged.
C3_TotalPages == ReplyPagesRight /\ ReplyEchoes /\ DomainResponseRight

\* C4: whatever the query string says about page and page_size, the
\* parameters parseSearchParams produces have Page >= 1 and PageSize >= 1,
\* and so has every response built from them.
C4_PagePositive ==
    /\ http.stage = "response" => params.Page >= 1 /\ params.PageSize >= 1
    /\ (Served) => http.reply.body.page_size >= 1
    /\ response # Nil => Deref(response).PageSize >= 1

\* A request with page=-1 and a page_size that is not a number was served
\* with page 1 and page size 10.
C4_Witness ==
    /\ Served
    /\ http.url.page = Numeral(-1) /\ http.url.page_size = Text
    /\ http.reply.body.page = 1 /\ http.reply.body.page_size = 10

\* C5: with non-positive values replaced by 1 and 10, the relational
\* statement binds LIMIT = pageSize and OFFSET = (page-1)*pageSize, the
\* search-engine request carries size = pageSize and from = (page-1)*pageSize,
\* and so both compilers ask for the same window.
C5_SameWindow ==
    LET size == ClaimedPageSize(params)
        from == (ClaimedPage(params) - 1) * size
    IN  /\ sqlQuery # Nil =>
              LET q == Deref(sqlQuery)
              IN  q.args[q.limit] = size /\ q.args[q.offset] = from
        /\ esQuery # Nil =>
              Deref(esQuery).size = size /\ Deref(esQuery).from = from

\* Both compilers ran for the second page of two.
C5_Witness ==
    /\ sqlQuery # Nil /\ esQuery # Nil
    /\ params.Page = 2 /\ params.PageSize = 2
    /\ Deref(esQuery).from = 2

\* The ORDER BY keys of a statement as (expression, direction, nulls).
OrderKeys(q) ==
    [ i \in 1..Len(q.orderBy) |->
        <<q.orderBy[i].expr, q.orderBy[i].dir, q.orderBy[i].nulls>> ]

\* The ordering each sort policy stands for.
PolicyKeys(p) ==
    CASE p.SortBy = "rating" ->
           << <<"rating", "DESC", "LAST">>, <<"review_count", "DESC", "default">> >>
      [] p.SortBy = "reviews" ->
           << <<"review_count", "DESC", "default">>, <<"rating", "DESC", "LAST">> >>
      [] p.SortBy = "newest" -> << <<"created_at", "DESC", "default">> >>
      [] p.SortBy = "distance" /\ p.Location # Nil ->
           << <<"distance", "ASC", "default">> >>
      [] p.SortBy = "distance" /\ p.Location = Nil ->
           << <<"rating", "DESC", "LAST">> >>
      [] OTHER -> << <<"weighted", "DESC", "default">> >>

\* rating*2.0 + ln(1+review_count)*1.5 + (verified ? 5.0 : 0.0), in thousandths.
PolicyScore(row) ==
    Coalesce(row.rating, 0) * 200
    + (LnMilli(1 + Coalesce(row.review_count, 0)) * 3) \div 2
    + (IF row.is_verified THEN 5000 ELSE 0)

\* The values a policy ranks a row by, larger first; a missing rating or
\* distance ranks below every value.
PolicyRank(p, row) ==
    LET rating  == IF row.rating = Nil THEN -1 ELSE Deref(row.rating)
        reviews == Coalesce(row.review_count, 0)
    IN  CASE p.SortBy = "rating" -> <<rating, reviews>>
          [] p.SortBy = "reviews" -> <<reviews, rating>>
          [] p.SortBy = "newest" -> <<row.created_at, 0>>
          [] p.SortBy = "distance" /\ p.Location # Nil ->
               LET d == SqlDistance(row, Deref(p.Location).Latitude,
                                    Deref(p.Location).Longitude)
               IN  << IF d = Nil THEN -Infinity ELSE -Deref(d), 0 >>
          [] p.SortBy = "distance" /\ p.Location = Nil -> <<rating, 0>>
          [] OTHER -> <<PolicyScore(row), 0>>

NotBelow(a, b) == a[1] > b[1] \/ (a[1] = b[1] /\ a[2] >= b[2])

\* C6: the relational statement orders by the keys of the requested sort
\* policy (rating, reviews, newest, distance with its rating fallback, and
\* the weighted score for any other value), and the salons come back in
\* that order.
C6_SortMapping ==
    /\ sqlQuery # Nil => OrderKeys(Deref(sqlQuery)) = PolicyKeys(params)
    /\ pgOut.status = "ok" =>
          \A i \in 1..(Len(pgOut.salons) - 1) :
              NotBelow(PolicyRank(params, db[pgOut.salons[i].ID]),
                       PolicyRank(params, db[pgOut.salons[i + 1].ID]))

\* A rating sort returned all three salons, the tie on rating between the
\* first and the third broken by their review counts.
C6_Witness ==
    /\ params.SortBy = "rating"
    /\ pgOut.status = "ok"
    /\ [i \in 1..Len(pgOut.salons) |-> pgOut.salons[i].ID] = <<1, 3, 2>>

\* The sort keys of a search-engine request as (field, order).
EsSortKeys(q) == [ i \in 1..Len(q.sort) |-> <<q.sort[i].field, q.sort[i].order>> ]

\* C7: the search-engine request sorts as the relational statement does:
\* rating then review count, review count then rating, creation time,
\* geo-distance with its rating fallback, and the engine's score first for
\* relevance.
C7_SortMirrors ==
    esQuery # Nil =>
        LET keys == EsSortKeys(Deref(esQuery))
        IN  CASE params.SortBy = "rating" ->
                   keys = << <<"rating", "desc">>, <<"review_count", "desc">> >>
              [] params.SortBy = "reviews" ->
                   keys = << <<"review_count", "desc">>, <<"rating", "desc">> >>
              [] params.SortBy = "newest" -> keys = << <<"created_at", "desc">> >>
              [] params.SortBy = "distance" /\ params.Location # Nil ->
                   keys = << <<"_geo_distance", "asc">> >>
              [] params.SortBy = "distance" /\ params.Location = Nil ->
                   keys = << <<"rating", "desc">> >>
              [] OTHER -> keys # << >> /\ keys[1] = <<"_score", "desc">>

\* The predicates a relational statement carries besides the geo-radius one.
FilterPreds(q) ==
    SelectSeq([i \in 1..Len(q.where) |-> q.where[i]],
              LAMBDA c : c.pred # "geo_within")

When(supplied, pred, val) ==
    IF supplied THEN << [pred |-> pred, val |-> val] >> ELSE << >>

\* The filters a request supplies, each with the values it asks for (none
\* for the verified flag).
SuppliedFilters(p) ==
    When(p.Query # "", "fts", {p.Query})
    \o When(p.City # "", "lower_city_eq", {p.City})
    \o When(p.CategoryID # Nil, "category_eq", p.CategoryID)
    \o When(p.PriceRange # 0, "price_eq", {p.PriceRange})
    \o When(p.MinRating # Nil, "rating_gte", p.MinRating)
    \o When(p.IsVerified = Some(TRUE), "is_verified", {})

\* The arguments a statement binds besides those of its filters: four for
\* the geo-radius predicate, three for a distance ordering, and the window.
OtherArgs(p) ==
    (IF p.Location # Nil /\ p.RadiusKm # Nil THEN 4 ELSE 0)
    + (IF p.SortBy = "distance" /\ p.Location # Nil THEN 3 ELSE 0)
    + 2

\* C9: the WHERE clause of the relational statement is the active-only
\* predicate followed by exactly one clause per supplied filter, each
\* reading its own filter's value; an omitted filter adds neither a clause
\* nor a bound argument, whatever the other filters are.
C9_OneClausePerFilter ==
    sqlQuery # Nil =>
        LET q        == Deref(sqlQuery)
            clauses  == FilterPreds(q)
            supplied == SuppliedFilters(params)
        IN  /\ clauses[1] = [pred |-> "is_active", ph |-> << >>]
            /\ Len(clauses) = 1 + Len(supplied)
            /\ \A i \in 1..Len(supplied) :
                  /\ clauses[i + 1].pred = supplied[i].pred
                  /\ { q.args[n] : n \in { clauses[i + 1].ph[k] :
                                            k \in 1..Len(clauses[i + 1].ph) } }
                        = supplied[i].val
            /\ Len(q.args)
                 = Cardinality({ i \in 1..Len(supplied) :
                                   supplied[i].pred # "is_verified" })
                   + OtherArgs(params)

\* A statement compiled with the text, city and verified filters supplied
\* and the category, price and rating filters omitted.
C9_Witness ==
    /\ sqlQuery # Nil
    /\ params.Query # "" /\ params.City # "" /\ params.IsVerified = Some(TRUE)
    /\ params.CategoryID = Nil /\ params.PriceRange = 0 /\ params.MinRating = Nil
    /\ Len(FilterPreds(Deref(sqlQuery))) = 4

\* C8: with an empty text query, the filters of the search-engine request
\* accept a salon exactly when the predicates of the relational statement
\* accept it, the city filter ignoring letter case on both.
C8_FiltersEquivalent ==
    (sqlQuery # Nil /\ esQuery # Nil /\ params.Query = "") =>
        \A id \in 1..Len(db) :
            id \in Matching(Deref(sqlQuery), db) <=> id \in Hits(Deref(esQuery), index)

GeoSupplied(p) == p.Location # Nil /\ p.RadiusKm # Nil

\* The same request without its geo-center and radius.
WithoutGeo(p) == [p EXCEPT !.Location = Nil, !.RadiusKm = Nil]

\* Whether a returned salon has coordinates within the radius of the centre.
WithinRadius(s, p) ==
    /\ s.Location.GeoPoint # Nil
    /\ DistanceTo(Deref(p.Location), Deref(s.Location.GeoPoint)) <= Deref(p.RadiusKm)

\* C10: each backend's query carries a geo-radius filter exactly when both
\* a centre and a radius are supplied; with the filter every returned salon
\* has coordinates no farther from the centre than the radius, and without
\* it the query selects what the request without centre and radius selects.
C10_GeoFilter ==
    /\ sqlQuery # Nil =>
          /\ (\E i \in 1..Len(Deref(sqlQuery).where) :
                  Deref(sqlQuery).where[i].pred = "geo_within") <=> GeoSupplied(params)
          /\ ~GeoSupplied(params) =>
                Matching(Deref(sqlQuery), db)
                    = Matching(SearchSalonsQuery(WithoutGeo(params)), db)
    /\ esQuery # Nil =>
          /\ (\E i \in 1..Len(Deref(esQuery).filter) :
                  Deref(esQuery).filter[i].kind = "geo_distance") <=> GeoSupplied(params)
          /\ ~GeoSupplied(params) =>
                Hits(Deref(esQuery), index)
                    = Hits(buildQuery(WithoutGeo(params)), index)
    /\ \A out \in Outputs :
          (out.status = "ok" /\ GeoSupplied(params)) =>
              \A s \in Salons(out) : WithinRadius(s, params)

\* A request with centre and radius as its only filters, answered by both
\* backends with the one salon in range: the second salon has no
\* coordinates and the third, active, lies a degree of latitude away.
C10_Witness ==
    /\ GeoSupplied(params)
    /\ params.City = "" /\ params.MinRating = Nil /\ params.IsVerified = Nil
    /\ db[3].is_active /\ db[3].latitude = Some(-37) /\ db[3].longitude # Nil
    /\ \A out \in Outputs : out.status = "ok" /\ Ids(out) = {1}

\* The number of characters of a string.
RECURSIVE RuneCount(_)
RuneCount(s) == IF s = << >> THEN 0 ELSE Head(s).n + RuneCount(Tail(s))

\* Whether a string has a character that is not a space.
NonBlank(s) == \E i \in 1..Len(s) : s[i].n > 0 /\ s[i].ch # " "

\* The invariants of a salon, each with the message of its violation.
SalonInvariants(s) ==
    { <<"name is required", NonBlank(s.Name)>>,
      <<"name must be less than 255 characters", RuneCount(s.Name) <= 255>>,
      <<"slug is required", NonBlank(s.Slug)>>,
      <<"price_range must be between 1 and 4", s.PriceRange = 0 \/ s.PriceRange \in 1..4>>,
      <<"rating must be between 0 and 5",
        s.Rating = Nil \/ (Deref(s.Rating) >= 0 /\ Deref(s.Rating) <= 50)>>,
      <<"invalid geo coordinates",
        s.Location.GeoPoint = Nil
        \/ (/\ Deref(s.Location.GeoPoint).Latitude \in -90..90
            /\ Deref(s.Location.GeoPoint).Longitude \in -180..180)>> }

SalonValidated == call.method = "Salon.Validate" /\ call.done

\* C11: Salon.Validate succeeds exactly when the name is non-blank and at
\* most 255 characters, the slug is non-blank, the price tier is 0 or in
\* 1..4, the rating is absent or in [0,5] and the GeoPoint is absent or
\* within latitude [-90,90] and longitude [-180,180].
C11_ValidateIffInvariants ==
    SalonValidated =>
        (call.result = << >> <=> \A inv \in SalonInvariants(call.recv) : inv[2])

\* How many entries of an error carry a message.
Entries(errs, msg) == Cardinality({ i \in 1..Len(errs) : errs[i] = msg })

\* C12: the error of Salon.Validate has exactly one entry for every
\* invariant the salon violates, however many it violates at once, and
\* Validate leaves the salon as it was.
C12_EveryViolationReported ==
    SalonValidated =>
        /\ \A inv \in SalonInvariants(call.recv) :
              ~inv[2] => Entries(call.result, inv[1]) = 1
        /\ call.after = call.recv

\* A salon with a blank name, a blank slug, price tier 10, rating 5.5 and
\* latitude 100 was validated, and the error has five entries.
C12_Witness ==
    /\ SalonValidated
    /\ Cardinality({ inv \in SalonInvariants(call.recv) : ~inv[2] }) = 5
    /\ Len(call.result) = 5

\* The rules of a service, each with the message of its violation.
ServiceRules(s) ==
    { <<"name is required", NonBlank(s.Name)>>,
      <<"salon_id is required", s.SalonID > 0>>,
      <<"price_min cannot be negative", s.PriceMin = Nil \/ Deref(s.PriceMin) >= 0>>,
      <<"price_max cannot be negative", s.PriceMax = Nil \/ Deref(s.PriceMax) >= 0>>,
      <<"price_min cannot be greater than price_max",
        s.PriceMin = Nil \/ s.PriceMax = Nil \/ Deref(s.PriceMin) <= Deref(s.PriceMax)>>,
      <<"duration_minutes must be positive",
        s.DurationMinutes = Nil \/ Deref(s.DurationMinutes) > 0>> }

ServiceValidated == call.method = "Service.Validate" /\ call.done

\* C13: Service.Validate succeeds exactly when the name is non-blank, the
\* salon id is positive, price-min and price-max are each absent or >= 0,
\* price-min <= price-max when both are present and the duration is absent
\* or positive; its error has one entry for each rule violated and no other.
C13_ServiceValidate ==
    ServiceValidated =>
        /\ call.result = << >> <=> \A rule \in ServiceRules(call.recv) : rule[2]
        /\ \A rule \in ServiceRules(call.recv) :
              Entries(call.result, rule[1]) = IF rule[2] THEN 0 ELSE 1
        /\ Len(call.result)
             = Cardinality({ rule \in ServiceRules(call.recv) : ~rule[2] })

\* A service with equal price-min and price-max passed, and one with no
\* name, no salon, a negative price-max below its price-min and a zero
\* duration failed on all four counts and on the inverted range.
C13_Witness ==
    /\ ServiceValidated
    /\ \/ /\ call.recv.PriceMin = Some(2000) /\ call.recv.PriceMax = Some(2000)
          /\ call.result = << >>
       \/ /\ call.recv.PriceMin = Some(0) /\ call.recv.PriceMax = Some(-100)
          /\ Len(call.result) = 5

\* Seconds since midnight of a time of day written "HH:MM:SS".
SecondsOfDay(str) ==
    LET two(i) == (str[i] - 48) * 10 + (str[i + 1] - 48)
    IN  two(1) * 3600 + two(4) * 60 + two(7)

\* Seconds since midnight of an instant.
TimeOfDay(t) == t.hour * 3600 + t.minute * 60 + t.second

\* An entry for t's day, not flagged closed, whose hours contain t.
OpenEntry(oh, t) ==
    /\ oh.DayOfWeek = t.weekday
    /\ ~oh.IsClosed
    /\ SecondsOfDay(oh.OpenTime) <= TimeOfDay(t)
    /\ TimeOfDay(t) <= SecondsOfDay(oh.CloseTime)

IsOpenReturned == call.method = "Salon.IsOpen" /\ call.done

\* C14: Salon.IsOpen(t) is true exactly when the salon has an
\* operating-hours entry for t's day of the week, not flagged closed, with
\* open <= t's time of day <= close, both ends included; with no entries,
\* or only a closed entry for the day, it is false; the answer is a function
\* of the hours and t alone and the salon is left as it was.
C14_IsOpen ==
    IsOpenReturned =>
        LET hs == call.recv.OperatingHours
        IN  /\ call.result = TRUE
                <=> \E i \in 1..Len(hs) : OpenEntry(hs[i], call.arg)
            /\ hs = << >> => call.result = FALSE
            /\ (\A i \in 1..Len(hs) :
                    hs[i].DayOfWeek = call.arg.weekday => hs[i].IsClosed)
                => call.result = FALSE
            /\ call.after = call.recv

\* Asked at the closing second of an open Monday, IsOpen said yes.
C14_Witness ==
    /\ IsOpenReturned
    /\ call.arg = Time(1, 18, 0, 0)
    /\ Len(call.recv.OperatingHours) = 2
    /\ call.recv.OperatingHours[2].CloseTime = ClockString(18, 0, 0)
    /\ ~call.recv.OperatingHours[2].IsClosed
    /\ call.recv.OperatingHours[1].IsClosed
    /\ call.result = TRUE

DistanceReturned == call.method = "GeoPoint.DistanceTo" /\ call.done

\* C15: for valid coordinate pairs a and b, a.DistanceTo(b) equals
\* b.DistanceTo(a), and a.DistanceTo(a) is 0.
C15_DistanceSymmetric ==
    DistanceReturned /\ GeoPointIsValid(call.recv) /\ GeoPointIsValid(call.arg) =>
        /\ call.result = DistanceTo(call.arg, call.recv)
        /\ call.recv = call.arg => call.result = 0

\* A distance was measured between two points of different latitudes and
\* longitudes, and came out positive.
C15_Witness ==
    /\ DistanceReturned
    /\ GeoPointIsValid(call.recv) /\ GeoPointIsValid(call.arg)
    /\ call.recv.Latitude # call.arg.Latitude
    /\ Abs(call.recv.Latitude) # Abs(call.arg.Latitude)
    /\ call.recv.Longitude # call.arg.Longitude
    /\ call.result > 0
    /\ call.result = DistanceTo(call.arg, call.recv)

\* The handler replied to a search request.
SearchReplied ==
    /\ http.stage = "response"
    /\ http.path \in {"/api/v1/search", "/api/v1/search/postgres"}

\* The fields of the search response envelope and of one of its results.
EnvelopeFields == {"results", "total", "page", "page_size", "total_pages", "query", "source"}

ResultFields == {"salon", "score", "distance_km", "highlights"}

\* C16: the body either search endpoint sends has the fields results,
\* total, page, page_size, total_pages, query and source, the result list
\* under results, and each entry of the list has the fields salon, score,
\* distance_km and highlights and no other.
C16_Envelope ==
    SearchReplied /\ Served =>
        LET body == http.reply.body
        IN  /\ DOMAIN body = EnvelopeFields
            /\ \A i \in 1..Len(body.results) :
                  /\ "salon" \in DOMAIN body.results[i]
                  /\ DOMAIN body.results[i] \subseteq ResultFields

\* The hits of the backend the route searched, in the order it returned them.
RouteSalons == IF http.path = "/api/v1/search" THEN esOut.salons ELSE pgOut.salons

\* The entries of the body, under whichever key the list is sent.
BodyEntries(body) == IF Has(body, "results") THEN body.results ELSE body.data

\* C17: the results of a served search stand one-to-one and in order for
\* the backend's hits; on the search-engine route each carries the score
\* the engine gave its hit, and on the relational route each has score 0
\* and no distance.
C17_ResultsCarryScores ==
    SearchReplied /\ Served =>
        LET entries == BodyEntries(http.reply.body)
        IN  /\ Len(entries) = Len(RouteSalons)
            /\ \A i \in 1..Len(entries) :
                  /\ Has(entries[i], "salon") /\ entries[i].salon = RouteSalons[i]
                  /\ Has(entries[i], "score")
                  /\ IF http.path = "/api/v1/search"
                     THEN entries[i].score
                            = Score(Deref(esQuery), index.docs[RouteSalons[i].ID])
                     ELSE entries[i].score = 0 /\ entries[i].distance_km = Nil

\* A parameter that must be a number and is not, or a page below 1.
Malformed(url) ==
    \/ \E v \in {url.category, url.price_range, url.min_rating, url.page, url.page_size} :
          v.kind = "text"
    \/ url.page.kind = "number" /\ url.page.n < 1

\* C19: a search request with a malformed parameter (page=-1, or a
\* category, price_range, min_rating, page or page_size that is not a
\* number) is answered with an error, and no query is compiled or sent.
C19_MalformedRejected ==
    SearchReplied /\ Malformed(http.url) =>
        /\ http.reply.status >= 400
        /\ sqlQuery = Nil /\ esQuery = Nil

\* The value a numeric parameter stands for, absent when it is not given.
Given(v) == IF v.kind = "number" THEN Some(v.n) ELSE Nil

\* C20: parseSearchParams copies every recognised parameter to its field:
\* q, city, category, price_range, min_rating, verified=true, lat with lon
\* as a GeoPoint in Location, radius, sort, and page and page_size when
\* they are positive numbers.
C20_EveryParameterCopied ==
    SearchReplied =>
        LET url == http.url
        IN  /\ params.Query = url.q
            /\ params.City = url.city
            /\ url.category.kind = "number" => params.CategoryID = Given(url.category)
            /\ url.price_range.kind = "number" =>
                  params.PriceRange = Deref(Given(url.price_range))
            /\ url.min_rating.kind = "number" => params.MinRating = Given(url.min_rating)
            /\ url.verified = "true" => params.IsVerified = Some(TRUE)
            /\ url.radius.kind = "number" => params.RadiusKm = Given(url.radius)
            /\ url.page.kind = "number" /\ url.page.n \in 1..MaxInt =>
                  params.Page = url.page.n
            /\ url.page_size.kind = "number" /\ url.page_size.n \in 1..MaxInt =>
                  params.PageSize = url.page_size.n
            /\ url.lat.kind = "number" /\ url.lon.kind = "number" =>
                  params.Location = Some(GeoPoint(url.lat.n, url.lon.n))
            /\ params.SortBy = url.sort

\* The handler replied to a request for one salon.
SalonReplied == http.stage = "response" /\ http.path = "/api/v1/salons/:id"

\* The read behind the reply failed for another reason than a missing row.
BackendFailed == pgOut.status = "error" /\ pgOut.cause # ErrNoRows

\* C18: what the caller of fetch-salon-by-id receives when a backend read
\* fails is not what it receives when no row has the id: the error of
\* GetSalonByID is not sql.ErrNoRows, and the reply of the handler is not
\* the reply for a salon that does not exist.
C18_NotFoundDistinct ==
    /\ call.method = "GetSalonByID" /\ call.done /\ BackendFailed =>
          call.result # GetFailed(ErrNoRows, 1)
    /\ SalonReplied /\ BackendFailed => http.reply # SalonNotFound

\* The placeholders of the clauses cs, in the order the clauses appear.
RECURSIVE PlaceholdersOf(_)
PlaceholdersOf(cs) ==
    IF cs = << >> THEN << >> ELSE Head(cs).ph \o PlaceholdersOf(Tail(cs))

\* Every placeholder of a statement in order of appearance: WHERE, ORDER
\* BY, LIMIT, OFFSET.
Placeholders(q) ==
    PlaceholdersOf(q.where) \o PlaceholdersOf(q.orderBy) \o <<q.limit, q.offset>>

\* The values a clause is meant to read, in the order of its placeholders.
MeantFor(pred, p) ==
    CASE pred = "fts" -> << p.Query >>
      [] pred = "lower_city_eq" -> << p.City >>
      [] pred = "category_eq" -> << Deref(p.CategoryID) >>
      [] pred = "price_eq" -> << p.PriceRange >>
      [] pred = "rating_gte" -> << Deref(p.MinRating) >>
      [] pred = "geo_within" ->
           << Deref(p.Location).Latitude, Deref(p.Location).Longitude,
              Deref(p.Location).Latitude, Deref(p.RadiusKm) >>
      [] pred = "distance" ->
           << Deref(p.Location).Latitude, Deref(p.Location).Longitude,
              Deref(p.Location).Latitude >>
      [] OTHER -> << >>

\* The clause reads, through its placeholders, the values meant for it.
ReadsMeant(clause, name, q, p) ==
    /\ Len(clause.ph) = Len(MeantFor(name, p))
    /\ \A j \in 1..Len(clause.ph) :
          /\ clause.ph[j] \in 1..Len(q.args)
          /\ q.args[clause.ph[j]] = MeantFor(name, p)[j]

\* C29: whatever filters, geo parameters and sort policy are supplied, the
\* placeholders of the relational statement are $1..$n in order of
\* appearance, n is the number of bound arguments, the argument at each
\* placeholder is the value meant for it, and the last two arguments are
\* the page size and the offset, bound to LIMIT and OFFSET.
C29_PlaceholdersConsecutive ==
    sqlQuery # Nil =>
        LET q == Deref(sqlQuery)
            n == Len(q.args)
            size == ClaimedPageSize(params)
        IN  /\ Placeholders(q) = [i \in 1..n |-> i]
            /\ \A i \in 1..Len(q.where) :
                  ReadsMeant(q.where[i], q.where[i].pred, q, params)
            /\ \A i \in 1..Len(q.orderBy) :
                  ReadsMeant(q.orderBy[i], q.orderBy[i].expr, q, params)
            /\ q.limit = n - 1 /\ q.offset = n
            /\ q.args[n - 1] = size
            /\ q.args[n] = (ClaimedPage(params) - 1) * size

\* A statement was compiled with every filter, the geo radius and the
\* distance sort: fourteen placeholders.
C29_Witness ==
    /\ sqlQuery # Nil
    /\ params.Query # "" /\ params.City # "" /\ params.CategoryID # Nil
    /\ params.PriceRange # 0 /\ params.MinRating # Nil
    /\ params.Location # Nil /\ params.RadiusKm # Nil
    /\ params.SortBy = SortByDistance
    /\ Len(Deref(sqlQuery).args) = 14
    /\ Placeholders(Deref(sqlQuery)) = [i \in 1..14 |-> i]

\* salonToDocument returned and the document was read back.
Converted == call.method = "salonToDocument" /\ call.done

\* The service entries of a salon as the document holds them.
ServiceEntries(services) ==
    [i \in 1..Len(services) |->
        [name |-> services[i].Name, price_min |-> services[i].PriceMin,
         price_max |-> services[i].PriceMax]]

\* Names of the amenities of a salon.
AmenityNames(amenities) == [i \in 1..Len(amenities) |-> amenities[i].Name]

\* Every field but the services comes back from the document as written.
RecoversAllButServices(s, back) ==
    /\ back.ID = s.ID /\ back.Name = s.Name /\ back.Slug = s.Slug
    /\ back.Description = s.Description
    /\ back.Location.Address = s.Location.Address
    /\ back.Location.City = s.Location.City
    /\ back.Location.State = s.Location.State
    /\ back.Location.Country = s.Location.Country
    /\ back.Location.GeoPoint = s.Location.GeoPoint
    /\ back.Contact = s.Contact
    /\ back.CategoryID = s.CategoryID
    /\ s.Category # Nil =>
          back.Category # Nil /\ Deref(back.Category).Name = Deref(s.Category).Name
    /\ back.PriceRange = s.PriceRange
    /\ back.Rating = s.Rating
    /\ back.ReviewCount = s.ReviewCount
    /\ back.IsActive = s.IsActive /\ back.IsVerified = s.IsVerified
    /\ AmenityNames(back.Amenities) = AmenityNames(s.Amenities)

\* C24: documentToSalon(salonToDocument(s)) recovers every field
\* salonToDocument wrote: id, name, slug, description, the address fields,
\* the geo location, the contact, category id and name, price tier, rating,
\* review count, the active and verified flags, the service entries and
\* the amenity names.
C24_RoundTrip ==
    Converted =>
        /\ RecoversAllButServices(call.recv, call.result.salon)
        /\ ServiceEntries(call.result.salon.Services) = ServiceEntries(call.recv.Services)

\* C25: a field absent on the salon (no description, no category, no
\* rating, price tier unset, a service without price-min or price-max, no
\* coordinates, no services, no amenities) has no key in the document.
C25_AbsentOmitted ==
    Converted =>
        LET s == call.recv
            doc == call.result.doc
        IN  /\ s.Description = Nil => ~Has(doc, "description")
            /\ s.CategoryID = Nil => ~Has(doc, "category_id")
            /\ s.Category = Nil => ~Has(doc, "category_name")
            /\ s.Rating = Nil => ~Has(doc, "rating")
            /\ s.PriceRange = 0 => ~Has(doc, "price_range")
            /\ s.Location.GeoPoint = Nil => ~Has(doc, "location")
            /\ s.Services = << >> => ~Has(doc, "services")
            /\ s.Amenities = << >> => ~Has(doc, "amenities")
            /\ \A i \in 1..Len(s.Services) :
                  /\ s.Services[i].PriceMin = Nil => ~Has(doc.services[i], "price_min")
                  /\ s.Services[i].PriceMax = Nil => ~Has(doc.services[i], "price_max")

\* The document fields buildQuery filters and sorts on.
CompilerFields(p) ==
    { FilterClauses(p)[i].field : i \in 1..Len(FilterClauses(p)) }
      \cup ({ SortClauses(p)[i].field : i \in 1..Len(SortClauses(p)) }
              \ {"_score", "_geo_distance"})

\* The fields of the requests that set every filter, under each sort policy.
CompilerFieldsUsed ==
    UNION { CompilerFields(SalonSearchParams("spa", "Mar del Plata", Some(1), 1, Some(45),
                                             Some(TRUE), Some(Centre), Some(15000),
                                             1, DefaultPageSize, sort)) :
              sort \in SortInputs }

\* The salon has a value for the document field.
HasValueFor(s, field) ==
    CASE field = "city" -> s.Location.City # ""
      [] field = "category_id" -> s.CategoryID # Nil
      [] field = "price_range" -> s.PriceRange # 0
      [] field = "rating" -> s.Rating # Nil
      [] field = "location" -> s.Location.GeoPoint # Nil
      [] OTHER -> TRUE

\* C30: every field the search-engine compiler can filter or sort on
\* (is_active, city, category_id, price_range, rating, is_verified,
\* location, review_count, created_at) is in the document salonToDocument
\* writes for a salon that has the value.
C30_CompilerFieldsWritten ==
    Converted =>
        \A field \in CompilerFieldsUsed :
            HasValueFor(call.recv, field) => Has(call.result.doc, field)

\* The backend a search route calls.
RouteBackend == IF http.path = "/api/v1/search" THEN "elasticsearch" ELSE "postgresql"

\* What the backend of the route returned.
RouteOut == IF http.path = "/api/v1/search" THEN esOut ELSE pgOut

\* C21: a search invocation sends at most one query, to the one backend of
\* its route and nothing to the other; when that call fails the caller gets
\* the failure at once, with no second attempt and no answer from the
\* other backend.
C21_OneQueryOneBackend ==
    SearchReplied =>
        /\ Len(wire) <= 1
        /\ \A i \in 1..Len(wire) : wire[i].to = RouteBackend
        /\ IF http.path = "/api/v1/search"
           THEN sqlQuery = Nil /\ pgOut = Idle
           ELSE esQuery = Nil /\ esOut = Idle
        /\ RouteOut = Failed => http.reply = SearchFailed

\* The engine failed a search and the handler answered 500 after its one
\* request.
C21_Witness ==
    /\ SearchReplied
    /\ http.path = "/api/v1/search"
    /\ esOut = Failed
    /\ wire = << EsCall("Search", FALSE) >>
    /\ http.reply.status = 500

\* GetSalonByID returned, to the handler or to its direct caller.
ByIdReturned == pgOut.status \in {"ok", "error"} /\ sqlQuery # Nil

\* The id GetSalonByID was asked for.
AskedId == Deref(sqlQuery).args[1]

\* What GetSalonByID has done once it returned: its reads on the wire are
\* the first of salon, services, amenities, operating hours in that order;
\* none follows a failed one; a salon comes back only after all four, with
\* its collections attached; an error comes with no salon; nothing writes.
ByIdReadsInOrder ==
    ByIdReturned =>
        /\ Len(wire) \in 1..4
        /\ wire = SubSeq(<< Select("salon"), Select("services"), Select("amenities"),
                            Select("operating_hours") >>, 1, Len(wire))
        /\ \A i \in 1..Len(wire) : ~wire[i].writes
        /\ pgOut.status = "error" /\ pgOut.cause = ErrNoRows => Len(wire) = 1
        /\ pgOut.status = "error" => pgOut.salons = << >>
        /\ pgOut.status = "ok" =>
              /\ Len(wire) = 4
              /\ Len(pgOut.salons) = 1
              /\ pgOut.salons[1].ID = AskedId
              /\ pgOut.salons[1].Services = ServicesOf(AskedId)
              /\ pgOut.salons[1].Amenities = AmenitiesOf(AskedId)
              /\ pgOut.salons[1].OperatingHours = HoursOf(AskedId)

\* C22: GetSalonByID reads the salon row, the services, the amenities and
\* the operating hours in that order, each only after the one before
\* succeeded; it returns a salon only when all four succeeded, with the
\* three collections attached, and an error with no salon otherwise; it
\* writes nothing.
C22_SequentialReads == [](ByIdReadsInOrder) /\ [][db' = db /\ index' = index]_vars

\* Salon 1 came back after four reads with its service, amenities and hours.
C22_Witness ==
    /\ call.method = "GetSalonByID" /\ call.done
    /\ call.arg = 1
    /\ call.result.status = "ok"
    /\ Len(wire) = 4
    /\ Len(call.result.salons[1].Services) = 1
    /\ Len(call.result.salons[1].Amenities) = 2
    /\ Len(call.result.salons[1].OperatingHours) = 1

\* ------------------------------------------------------------------------
\* The index after a sync
\* ------------------------------------------------------------------------

\* The ids of the active salons of a table, and of the documents a search
\* of an index can reach.
ActiveIds(table) == { table[k].id : k \in { j \in 1..Len(table) : table[j].is_active } }

Indexed(idx) == IF idx.exists THEN DOMAIN idx.docs ELSE { }

\* The run replied 200 "Sync completed successfully".
Succeeded(r) ==
    sync[r].pc = "done" /\ sync[r].reply = Some(SyncCompleted(sync[r].salons))

\* The run replied 500.
GaveUp(r) ==
    sync[r].pc = "done" /\ sync[r].reply # Some(SyncCompleted(sync[r].salons))

Started(r) == sync[r] # IdleRun

\* The run is the only one that started.
OnlyRun(r) == \A other \in Syncs \ {r} : ~Started(other)

\* The run is the only one that started, and the active salons of the
\* table are those it fetched.
Alone(r) ==
    /\ OnlyRun(r)
    /\ ActiveIds(db) = { sync[r].salons[i].ID : i \in 1..Len(sync[r].salons) }

\* C23: once a sync that ran alone, with no write to the table meanwhile,
\* has reported success, the index exists and holds one document under
\* the id of every active salon, each carrying that id, and no document
\* of an inactive salon or of a salon that is gone.
C23_IndexIsActiveSalons ==
    \A r \in Syncs :
        Succeeded(r) /\ Alone(r) =>
            /\ index.exists
            /\ DOMAIN index.docs = ActiveIds(db)
            /\ \A id \in DOMAIN index.docs : index.docs[id].id = id

\* C27: when a sync that ran alone has reported an error, whichever of
\* its steps failed, the index is as it was before the sync: it exists and
\* holds the documents the earlier sync left.
C27_FailedSyncKeepsIndex ==
    \A r \in Syncs : GaveUp(r) /\ OnlyRun(r) => index \in EarlierIndexes

\* The ids of the salons a run fetched, once it has.
FetchedIds(r) == { sync[r].salons[i].ID : i \in 1..Len(sync[r].salons) }

Fetched(r) ==
    /\ Started(r)
    /\ sync[r].reply # Some(SyncFailed("Failed to fetch salons"))

\* The complete document sets: the one before the syncs, and the one each
\* sync is writing.
WholeSets ==
    { Indexed(idx) : idx \in EarlierIndexes }
      \cup { FetchedIds(r) : r \in { q \in Syncs : Fetched(q) } }

\* C28: whatever the syncs are doing, the index a search meets exists and
\* holds a complete document set, the one before a sync or the one after
\* it, and a search that was answered returned such a set: never the
\* salons of an empty or half-written index.
C28_SearchSeesWholeSet ==
    /\ index.exists
    /\ Indexed(index) \in WholeSets
    /\ esOut.status = "ok" => Ids(esOut) \in WholeSets

\* No run of the sync handler is between its first call and its reply.
Quiet == \A r \in Syncs : sync[r].pc \in {"GetAllSalons", "done"}

\* The steps that are no step of a sync, a search or a write to the table
\* by another client, leave the index as it is.
OnlySyncWritesIndex == [][sync' = sync => index' = index]_vars

\* C26: the searches and reads by id send no writing request, and while no
\* sync is running and none has succeeded since the earlier one, the index
\* is as the earlier sync left it, whatever was written to the table: the
\* salons indexed then, a deactivated one included, are still returned.
C26_EngineChangesOnlyBySync ==
    /\ \A i \in 1..Len(wire) : ~wire[i].writes
    /\ (Quiet /\ \A r \in Syncs : ~Succeeded(r)) => index \in EarlierIndexes

====
